---- MODULE Spec2Model ----
(***************************************************************************)
(* The narrative-to-dialogue-bubble extractor of AiComicCrafter            *)
(* (ComicBubbleExtractor, src/text_bubble_extractor/demo.py and its copy   *)
(* in src/comic_generator/dialogue_generator.py).                          *)
(*                                                                         *)
(* Text is a TLA+ string; offsets are 0-based as in Python, so the         *)
(* character at offset i of s is SubSeq(s, i+1, i+1).  A module may hold   *)
(* ASCII only, so the four curly quotation marks are written with ASCII    *)
(* stand-ins (U201C .. U2019) that occur nowhere else in the inputs.       *)
(***************************************************************************)
EXTENDS Integers, Sequences, FiniteSets, TLC

\* The locals of the running call of process_paragraph (paragraph .. si; pc
\* is its position and returned its return value); the annotations the
\* engine of the extractor instance has given so far (engine, ner); the
\* locals of the other call on the same instance, if any (parked); and the
\* arguments and the return value of a method of the extractor called on
\* its own, or the request and the locals of an HTTP handler called on its
\* own (args, value).
VARIABLES paragraph, pc, quote_info, qi, bubbles, processed_ranges,
          non_quote_text, si, returned, engine, ner, parked, args, value

locals == <<paragraph, pc, quote_info, qi, bubbles, processed_ranges,
            non_quote_text, si, returned>>

vars == <<paragraph, pc, quote_info, qi, bubbles, processed_ranges,
          non_quote_text, si, returned, engine, ner, parked, args, value>>

(***************************************************************************)
(* Python str primitives.                                                  *)
(***************************************************************************)
UpperLetters == "ABCDEFGHIJKLMNOPQRSTUVWXYZ"

LowerLetters == "abcdefghijklmnopqrstuvwxyz"

Min(a, b) == IF a < b THEN a ELSE b

Max(a, b) == IF a < b THEN b ELSE a

\* s[a:b] with Python's clipping of both ends to 0..len(s)
Slice(s, a, b) ==
  LET lo == Max(0, a)
      hi == Min(Len(s), b)
  IN IF lo >= hi THEN "" ELSE SubSeq(s, lo + 1, hi)

\* s[i]
At(s, i) == SubSeq(s, i + 1, i + 1)

UpperSet == {SubSeq(UpperLetters, k, k) : k \in 1..26}

LowerSet == {SubSeq(LowerLetters, k, k) : k \in 1..26}

ToLower == [c \in UpperSet |->
              LET k == CHOOSE j \in 1..26 : SubSeq(UpperLetters, j, j) = c
              IN SubSeq(LowerLetters, k, k)]

ToUpper == [c \in LowerSet |->
              LET k == CHOOSE j \in 1..26 : SubSeq(LowerLetters, j, j) = c
              IN SubSeq(UpperLetters, k, k)]

IsUpperCh(c) == c \in UpperSet

IsLowerCh(c) == c \in LowerSet

LowerCh(c) == IF c \in UpperSet THEN ToLower[c] ELSE c

UpperCh(c) == IF c \in LowerSet THEN ToUpper[c] ELSE c

RECURSIVE Lower(_)
\* str.lower()
Lower(s) == IF s = "" THEN "" ELSE LowerCh(Head(s)) \o Lower(Tail(s))

\* str.isupper(): at least one cased character and no lower-case one
IsUpper(s) ==
  /\ \E i \in 0..(Len(s) - 1) : IsUpperCh(At(s, i))
  /\ \A i \in 0..(Len(s) - 1) : ~IsLowerCh(At(s, i))

IsSpace(c) == c \in {" ", "\t", "\n", "\r", "\f"}

\* str.strip()
Strip(s) ==
  LET nonws == {i \in 0..(Len(s) - 1) : ~IsSpace(At(s, i))}
  IN IF nonws = {} THEN ""
     ELSE LET lo == CHOOSE i \in nonws : \A j \in nonws : i <= j
              hi == CHOOSE i \in nonws : \A j \in nonws : j <= i
          IN Slice(s, lo, hi + 1)

\* the number of leading white-space characters str.strip() removes
LeadingSpace(s) ==
  LET nonws == {i \in 0..(Len(s) - 1) : ~IsSpace(At(s, i))}
  IN IF nonws = {} THEN Len(s)
     ELSE CHOOSE i \in nonws : \A j \in nonws : i <= j

\* str.count(c) for a single character c
Count(s, c) == Cardinality({i \in 0..(Len(s) - 1) : At(s, i) = c})

\* str.endswith(c) for a single character c
EndsWith(s, c) == Len(s) > 0 /\ At(s, Len(s) - 1) = c

\* len(str.split()): the number of maximal runs of non-white-space
WordCount(s) ==
  Cardinality({i \in 0..(Len(s) - 1) :
                 /\ ~IsSpace(At(s, i))
                 /\ (i = 0 \/ IsSpace(At(s, i - 1)))})

\* needle in hay
Contains(hay, needle) ==
  \E i \in 0..(Len(hay) - Len(needle)) : Slice(hay, i, i + Len(needle)) = needle

\* hay.find(needle): the first offset, -1 when there is none
Find(hay, needle) ==
  LET hits == {i \in 0..(Len(hay) - Len(needle)) :
                 Slice(hay, i, i + Len(needle)) = needle}
  IN IF hits = {} THEN -1 ELSE CHOOSE i \in hits : \A j \in hits : i <= j

(***************************************************************************)
(* VerbClassTables.                                                        *)
(***************************************************************************)
\* mutant: cried is a Speech verb as well
SPEECH_VERBS_WithCried ==
  {"say", "said", "says", "ask", "asked", "asks", "cried"}

SPEECH_VERBS ==
  {
    "say", "said", "says", "ask", "asked", "asks", "reply", "replied",
    "replies", "answer", "answered", "answers", "whisper", "whispered",
    "whispers", "mutter", "muttered", "mutters", "state", "stated", "states",
    "mention", "mentioned", "mentions", "tell", "told", "tells", "speak",
    "spoke", "speaks", "respond", "responded", "responds", "remark",
    "remarked", "remarks", "announce", "announced", "announces", "declare",
    "declared", "declares", "call", "called", "calls", "add", "added",
    "adds", "continue", "continued", "continues"
  }

THOUGHT_VERBS ==
  {
    "think", "thought", "thinks", "wonder", "wondered", "wonders", "ponder",
    "pondered", "ponders", "consider", "considered", "considers", "realize",
    "realized", "realizes", "figure", "figured", "figures", "imagine",
    "imagined", "imagines", "believe", "believed", "believes", "feel",
    "felt", "feels", "remember", "remembered", "remembers", "recall",
    "recalled", "recalls", "muse", "mused", "muses", "reflect", "reflected",
    "reflects", "reckon", "reckoned", "reckons"
  }

SHOUT_VERBS ==
  {
    "shout", "shouted", "shouts", "yell", "yelled", "yells", "scream",
    "screamed", "screams", "cry", "cried", "cries", "holler", "hollered",
    "hollers", "bellow", "bellowed", "bellows", "roar", "roared", "roars",
    "exclaim", "exclaimed", "exclaims", "shriek", "shrieked", "shrieks"
  }

(***************************************************************************)
(* Quote Locator: _find_all_quotes_with_context.                           *)
(***************************************************************************)
\* ASCII stand-ins for U+201C, U+201D, U+2018, U+2019
U201C == "{"

U201D == "}"

U2018 == "<"

U2019 == ">"

\* the context window: up to 100 characters before and after a match
CONTEXT_CHARS == 100

\* The five patterns, in list order.  Each is  open (.+?) close ; a pattern
\* is the set of its <<open, close>> character pairs.  The first pattern
\* closes with a back-reference, so with the very character that opened.
patterns ==
  << {<<q, q>> : q \in {"\"", U2018, U2019, U201C, U201D, "'"}},
     {<<"\"", "\"">>},
     {<<"'", "'">>},
     {<<U201C, U201D>>},
     {<<U2018, U2019>>} >>

\* The end offset (exclusive) of the match of pattern pat that starts at
\* offset s, or -1.  (.+?) is lazy, takes at least one character and never
\* a line break: the match closes at the first closing character at
\* offset >= s + 2 with no line break in between.
MatchEnd(text, pat, s) ==
  IF s >= Len(text) \/ ~\E pr \in pat : pr[1] = At(text, s) THEN -1
  ELSE LET close == (CHOOSE pr \in pat : pr[1] = At(text, s))[2]
           ends == {e \in (s + 2)..(Len(text) - 1) :
                      /\ At(text, e) = close
                      /\ \A k \in (s + 1)..(e - 1) : At(text, k) # "\n"}
       IN IF ends = {} THEN -1
          ELSE (CHOOSE e \in ends : \A f \in ends : e <= f) + 1

RECURSIVE FindIter(_, _, _)
\* re.finditer(pattern, text) from offset pos on: the leftmost match, then
\* the leftmost match after its end, and so on.  Each match is the tuple
\* (quote_text, start, end, before_ctx, after_ctx) the loop body builds.
FindIter(text, pat, pos) ==
  LET starts == {s \in pos..(Len(text) - 1) : MatchEnd(text, pat, s) # -1}
  IN IF starts = {} THEN <<>>
     ELSE LET start == CHOOSE s \in starts : \A t \in starts : s <= t
              end == MatchEnd(text, pat, start)
          IN << [quote_text |-> Slice(text, start + 1, end - 1),
                 start |-> start,
                 end |-> end,
                 before_ctx |-> Slice(text, Max(0, start - CONTEXT_CHARS), start),
                 after_ctx |-> Slice(text, end, Min(Len(text), end + CONTEXT_CHARS))] >>
             \o FindIter(text, pat, end)

RECURSIVE AllMatches(_, _)
\* the outer loop over the patterns: quotes after patterns k..5 are applied
AllMatches(text, k) ==
  IF k > Len(patterns) THEN <<>>
  ELSE FindIter(text, patterns[k], 0) \o AllMatches(text, k + 1)

RECURSIVE SortByStart(_)
\* quotes.sort(key=lambda x: x[1]): stable, so an element goes after every
\* element whose key is not greater
SortByStart(qs) ==
  IF qs = <<>> THEN <<>>
  ELSE LET rest == SortByStart(SubSeq(qs, 1, Len(qs) - 1))
           x == qs[Len(qs)]
           n == Cardinality({i \in 1..Len(rest) : rest[i].start <= x.start})
       IN SubSeq(rest, 1, n) \o <<x>> \o SubSeq(rest, n + 1, Len(rest))

\* mutant: no match is dropped
UniqueQuotes_KeepAll(qs, seen_positions) == qs

RECURSIVE UniqueQuotes(_, _)
\* the seen_positions loop: the first quote of each start offset is kept
UniqueQuotes(qs, seen_positions) ==
  IF qs = <<>> THEN <<>>
  ELSE IF Head(qs).start \notin seen_positions
       THEN <<Head(qs)>> \o UniqueQuotes(Tail(qs), seen_positions \cup {Head(qs).start})
       ELSE UniqueQuotes(Tail(qs), seen_positions)

find_all_quotes_with_context(text) ==
  UniqueQuotes(SortByStart(AllMatches(text, 1)), {})

(***************************************************************************)
(* The annotation engine (spaCy, self.nlp): not code of this repository.   *)
(* Its tokens, sentence boundaries, lemmas and tags are modelled as the    *)
(* rule-based part of the engine gives them; the dependency parse and the  *)
(* named entities, which a statistical model decides, are a choice among   *)
(* the parses of the shape  [subject] verb [complement clause] .           *)
(***************************************************************************)
PunctChars == {".", ",", "!", "?", ";", ":", "(", ")", "\"", "'", U201C, U201D, U2018, U2019}

SentenceEnd == {".", "!", "?"}

\* the end offset (exclusive) of the token that starts at offset i
TokenEnd(text, i) ==
  IF At(text, i) \in PunctChars THEN i + 1
  ELSE LET stops == {j \in (i + 1)..Len(text) :
                       j = Len(text) \/ IsSpace(At(text, j)) \/ At(text, j) \in PunctChars}
       IN CHOOSE j \in stops : \A k \in stops : j <= k

RECURSIVE TokensFrom(_, _)
\* the tokenizer: white space separates tokens, a punctuation character is
\* a token of its own; idx is the token's start offset in text (Token.idx)
TokensFrom(text, pos) ==
  LET starts == {i \in pos..(Len(text) - 1) : ~IsSpace(At(text, i))}
  IN IF starts = {} THEN <<>>
     ELSE LET i == CHOOSE a \in starts : \A b \in starts : a <= b
              e == TokenEnd(text, i)
          IN <<[text |-> Slice(text, i, e), idx |-> i]>> \o TokensFrom(text, e)

Tokenize(text) == TokensFrom(text, 0)

IsWord(tok) == Head(tok.text) \notin PunctChars /\ ~IsSpace(Head(tok.text))

\* Token.lemma_: the base form of the inflected forms the inputs use
LemmaTable ==
  [cried |-> "cry", cries |-> "cry", said |-> "say", says |-> "say",
   mused |-> "muse", muses |-> "muse", wondered |-> "wonder",
   survives |-> "survive", runs |-> "run"]

Lemmatize(word) ==
  LET w == Lower(word)
  IN IF w \in DOMAIN LemmaTable THEN LemmaTable[w] ELSE w

VerbLemmas == SPEECH_VERBS \cup THOUGHT_VERBS \cup SHOUT_VERBS \cup {"survive", "run"}

\* Token.pos_
PosOf(tok) ==
  IF ~IsWord(tok) THEN (IF IsSpace(Head(tok.text)) THEN "SPACE" ELSE "PUNCT")
  ELSE IF Lemmatize(tok.text) \in VerbLemmas THEN "VERB"
  ELSE IF Lower(tok.text) \in {"he", "she", "they", "him", "her", "them", "it"} THEN "PRON"
  ELSE IF IsUpperCh(Head(tok.text)) THEN "PROPN"
  ELSE "NOUN"

\* Token.tag_: VBZ is the third person singular present
TagOf(tok) ==
  IF PosOf(tok) = "VERB"
  THEN (IF EndsWith(tok.text, "s") /\ Lemmatize(tok.text) # Lower(tok.text) THEN "VBZ"
        ELSE IF EndsWith(tok.text, "d") THEN "VBD" ELSE "VB")
  ELSE PosOf(tok)

RECURSIVE SplitSents(_, _)
\* doc.sents: a sentence ends with its closing punctuation
SplitSents(toks, cur) ==
  IF toks = <<>> THEN (IF cur = <<>> THEN <<>> ELSE <<cur>>)
  ELSE LET t == Head(toks)
           closes == /\ t.text \in SentenceEnd
                     /\ (Len(toks) = 1 \/ toks[2].text \notin SentenceEnd)
       IN IF closes THEN <<Append(cur, t)>> \o SplitSents(Tail(toks), <<>>)
          ELSE SplitSents(Tail(toks), Append(cur, t))

\* The sentences of nlp(text), each a sequence of unparsed tokens.  A text
\* of white space alone is one sentence of one white-space token.
RawSents(text) ==
  IF text = "" THEN <<>>
  ELSE IF Strip(text) = "" THEN << <<[text |-> text, idx |-> 0]>> >>
  ELSE SplitSents(Tokenize(text), <<>>)

DepLabels == {"ccomp", "acl"}

\* The parses of one sentence.  The root is the first verb (the first token
\* when there is none); sub, when not 0, is the token before the root that
\* is its nsubj; comp, when not 0, is the token after the root that heads a
\* clause, is attached to the root with the label lab, and governs every
\* word after it.  Every other token hangs from the root.
Parses(raw) ==
  LET n == Len(raw)
      verbs == {i \in 1..n : PosOf(raw[i]) = "VERB"}
      root == IF verbs = {} THEN 1 ELSE CHOOSE i \in verbs : \A j \in verbs : i <= j
      words == {i \in 1..n : IsWord(raw[i])}
      lastw == IF words = {} THEN 0 ELSE CHOOSE i \in words : \A j \in words : j <= i
      Tok(i, sub, comp, lab) ==
        [text |-> raw[i].text, idx |-> raw[i].idx, i |-> i,
         lemma_ |-> Lemmatize(raw[i].text), pos_ |-> PosOf(raw[i]), tag_ |-> TagOf(raw[i]),
         dep_ |-> IF i = root THEN "ROOT"
                  ELSE IF i = sub THEN "nsubj"
                  ELSE IF i = comp THEN lab
                  ELSE IF ~IsWord(raw[i]) THEN "punct"
                  ELSE "dep",
         head |-> IF comp # 0 /\ i > comp /\ i <= lastw THEN comp ELSE root]
  IN { [i \in 1..n |-> Tok(i, sub, comp, lab)] :
         sub \in {0} \cup {i \in words : i < root},
         comp \in {0} \cup {i \in words : i > root},
         lab \in DepLabels }

RECURSIVE DocsOf(_)
DocsOf(raws) ==
  IF raws = <<>> THEN {<<>>}
  ELSE {<<p>> \o d : p \in Parses(Head(raws)), d \in DocsOf(Tail(raws))}

\* self.nlp(text).sents: every annotation the engine may return for text
nlp(text) == DocsOf(RawSents(text))

\* The engine is a function of the text: asked again about a text, it gives
\* the annotation it gave before.  memo holds the answers given so far.
Annotate(text) == IF text \in DOMAIN engine THEN {engine[text]} ELSE nlp(text)

Remember(memo, key, val) ==
  [k \in DOMAIN memo \cup {key} |-> IF k = key THEN val ELSE memo[k]]

\* Span.text of a sentence of the document of text
SentText(text, sent) ==
  Slice(text, sent[1].idx, sent[Len(sent)].idx + Len(sent[Len(sent)].text))

\* _extract_character_from_text: the first PERSON entity, else the first
\* PROPN token, else "".  Which capitalised word the engine calls a person
\* or a proper noun, if any, is the engine's choice.
extract_character_from_text(text) ==
  LET toks == Tokenize(text)
  IN {""} \cup {toks[i].text : i \in {j \in 1..Len(toks) : IsUpperCh(Head(toks[j].text))}}

\* the same, of an engine that answers as it did before
Recognize(text) == IF text \in DOMAIN ner THEN {ner[text]} ELSE extract_character_from_text(text)

(***************************************************************************)
(* Quote Classifier: _create_quote_bubble.  character is the answer of     *)
(* _extract_character_from_text(before + " " + after).                     *)
(***************************************************************************)
\* TextBubble(bubble_type, text, character); src is not a field of the
\* program's bubble: it records, for the ordering properties, the offset in the
\* paragraph at which the bubble's source (quote or sentence) starts.
TextBubble(bubble_type, text, character, src) ==
  [bubble_type |-> bubble_type, text |-> text, character |-> character, src |-> src]

\* any(verb in context for verb in verbs)
AnyVerbIn(verbs, context) == \E verb \in verbs : Contains(context, verb)

\* mutant: the verb-context rule for shouting is tried last
QuoteBubbleType_ShoutVerbLast(quote_text, before, after) ==
  LET context == Lower(before) \o " " \o Lower(after)
  IN IF IsUpper(quote_text) \/ Count(quote_text, "!") >= 2 THEN "shout"
     ELSE IF EndsWith(quote_text, "!") /\ WordCount(quote_text) <= 3 THEN "shout"
     ELSE IF AnyVerbIn(THOUGHT_VERBS, context) THEN "thought"
     ELSE IF AnyVerbIn(SHOUT_VERBS, context) THEN "shout"
     ELSE "speech"

\* mutant: the thought verbs are tried before the punctuation rules
QuoteBubbleType_ThoughtFirst(quote_text, before, after) ==
  LET context == Lower(before) \o " " \o Lower(after)
  IN IF AnyVerbIn(SHOUT_VERBS, context) THEN "shout"
     ELSE IF AnyVerbIn(THOUGHT_VERBS, context) THEN "thought"
     ELSE IF IsUpper(quote_text) \/ Count(quote_text, "!") >= 2 THEN "shout"
     ELSE IF EndsWith(quote_text, "!") /\ WordCount(quote_text) <= 3 THEN "shout"
     ELSE "speech"

\* mutant: a quote that no rule types is a scene
QuoteBubbleType_SceneByDefault(quote_text, before, after) ==
  LET context == Lower(before) \o " " \o Lower(after)
  IN IF AnyVerbIn(SHOUT_VERBS, context) THEN "shout"
     ELSE IF IsUpper(quote_text) \/ Count(quote_text, "!") >= 2 THEN "shout"
     ELSE IF EndsWith(quote_text, "!") /\ WordCount(quote_text) <= 3 THEN "shout"
     ELSE IF AnyVerbIn(THOUGHT_VERBS, context) THEN "thought"
     ELSE "scene"

QuoteBubbleType(quote_text, before, after) ==
  LET context == Lower(before) \o " " \o Lower(after)
  IN IF AnyVerbIn(SHOUT_VERBS, context) THEN "shout"
     ELSE IF IsUpper(quote_text) \/ Count(quote_text, "!") >= 2 THEN "shout"
     ELSE IF EndsWith(quote_text, "!") /\ WordCount(quote_text) <= 3 THEN "shout"
     ELSE IF AnyVerbIn(THOUGHT_VERBS, context) THEN "thought"
     ELSE "speech"

QuoteBubbleText(quote_text) == quote_text

create_quote_bubble(quote_text, before, after, character, src) ==
  TextBubble(QuoteBubbleType(quote_text, before, after),
             QuoteBubbleText(quote_text), character, src)

(***************************************************************************)
(* _extract_non_quoted_text.  A segment is [text, off]: the stripped text  *)
(* the program returns and (for the coverage property) its offset in text. *)
(***************************************************************************)
\* sorted(quote_ranges): tuples compare by start, then by end
RangeBefore(a, b) == a[1] < b[1] \/ (a[1] = b[1] /\ a[2] <= b[2])

RECURSIVE SortedRanges(_)
SortedRanges(rs) ==
  IF rs = <<>> THEN <<>>
  ELSE LET rest == SortedRanges(SubSeq(rs, 1, Len(rs) - 1))
           x == rs[Len(rs)]
           n == Cardinality({i \in 1..Len(rest) : RangeBefore(rest[i], x)})
       IN SubSeq(rest, 1, n) \o <<x>> \o SubSeq(rest, n + 1, Len(rest))

\* text[a:b].strip(), appended when it is not empty
StrippedSegment(text, a, b) ==
  LET raw == Slice(text, a, b)
  IN IF Strip(raw) = "" THEN <<>>
     ELSE <<[text |-> Strip(raw), off |-> a + LeadingSpace(raw)]>>

RECURSIVE SegmentsFrom(_, _, _)
\* the loop over the sorted ranges, then the text after the last quote
SegmentsFrom(text, ranges, last_end) ==
  IF ranges = <<>>
  THEN (IF last_end < Len(text) THEN StrippedSegment(text, last_end, Len(text)) ELSE <<>>)
  ELSE LET start == Head(ranges)[1]
           end == Head(ranges)[2]
       IN (IF last_end < start THEN StrippedSegment(text, last_end, start) ELSE <<>>)
          \o SegmentsFrom(text, Tail(ranges), end)

extract_non_quoted_text(text, quote_ranges) ==
  IF quote_ranges = <<>> THEN <<[text |-> text, off |-> 0]>>
  ELSE SegmentsFrom(text, SortedRanges(quote_ranges), 0)

(***************************************************************************)
(* Person Rewriter: _convert_to_first_person.                              *)
(***************************************************************************)
\* the pronoun branches of the if/elif chain, in order; "" when none applies
PronounMap(token_lower) ==
  CASE token_lower \in {"he", "she"} -> "I"
    [] token_lower \in {"him", "her"} -> "me"
    [] token_lower = "his" -> "my"
    [] token_lower = "hers" -> "mine"
    [] token_lower \in {"himself", "herself"} -> "myself"
    [] token_lower = "they" -> "we"
    [] token_lower = "them" -> "us"
    [] token_lower = "their" -> "our"
    [] token_lower = "theirs" -> "ours"
    [] token_lower \in {"they'd", "he'd", "she'd"} -> "I'd"
    [] token_lower \in {"they'll", "he'll", "she'll"} -> "I'll"
    [] token_lower \in {"they're", "he's", "she's"} -> "I'm"
    [] OTHER -> ""

\* mutant: the pronoun branches are tried before the character's name
RewriteToken_PronounFirst(tok, character, result) ==
  IF PronounMap(Lower(tok.text)) # "" THEN PronounMap(Lower(tok.text))
  ELSE IF character # "" /\ tok.text = character THEN "I"
  ELSE IF /\ Len(result) > 0
          /\ Lower(result[Len(result)]) \in {"i", "we"}
          /\ PosOf(tok) = "VERB"
          /\ TagOf(tok) = "VBZ"
       THEN Lemmatize(tok.text)
  ELSE tok.text

\* mutant: a VBZ verb is de-conjugated wherever it stands
RewriteToken_AlwaysLemma(tok, character, result) ==
  IF character # "" /\ tok.text = character THEN "I"
  ELSE IF PronounMap(Lower(tok.text)) # "" THEN PronounMap(Lower(tok.text))
  ELSE IF PosOf(tok) = "VERB" /\ TagOf(tok) = "VBZ" THEN Lemmatize(tok.text)
  ELSE tok.text

\* one pass of the while loop: what is appended to result for token tok
RewriteToken(tok, character, result) ==
  IF character # "" /\ tok.text = character THEN "I"
  ELSE IF PronounMap(Lower(tok.text)) # "" THEN PronounMap(Lower(tok.text))
  ELSE IF /\ Len(result) > 0
          /\ Lower(result[Len(result)]) \in {"i", "we"}
          /\ PosOf(tok) = "VERB"
          /\ TagOf(tok) = "VBZ"
       THEN Lemmatize(tok.text)
  ELSE tok.text

RECURSIVE RewriteTokens(_, _, _)
RewriteTokens(toks, character, result) ==
  IF toks = <<>> THEN result
  ELSE RewriteTokens(Tail(toks), character,
                     Append(result, RewriteToken(Head(toks), character, result)))

RECURSIVE Reassemble(_, _)
\* the spacing loop, over result[1..k]
Reassemble(result, k) ==
  IF k = 0 THEN ""
  ELSE IF k = 1 THEN result[1]
  ELSE IF result[k] \in {".", ",", "!", "?", "'", ";", ":", ")"}
       THEN Reassemble(result, k - 1) \o result[k]
  ELSE IF result[k - 1] \in {"(", "\"", "'"}
       THEN Reassemble(result, k - 1) \o result[k]
  ELSE Reassemble(result, k - 1) \o " " \o result[k]

\* mutant: the first letter is capitalised and nothing is appended
Finish_NothingAppended(output) ==
  IF output = "" THEN "" ELSE UpperCh(Head(output)) \o Tail(output)

\* output[0].upper() + output[1:], then '?' unless it ends a sentence
Finish(output) ==
  LET cap == IF output = "" THEN "" ELSE UpperCh(Head(output)) \o Tail(output)
  IN IF cap # "" /\ At(cap, Len(cap) - 1) \notin {".", "!", "?"} THEN cap \o "?" ELSE cap

\* doc = self.nlp(text), token by token: a text of white space alone is one
\* white-space token
DocTokens(text) ==
  IF text # "" /\ Strip(text) = "" THEN <<[text |-> text, idx |-> 0]>> ELSE Tokenize(text)

convert_to_first_person(text, character) ==
  LET result == RewriteTokens(DocTokens(text), character, <<>>)
  IN Finish(Reassemble(result, Len(result)))

(***************************************************************************)
(* Clause Extractor: _convert_indirect_speech and _extract_speech_content. *)
(* NoBubble stands for None.                                               *)
(***************************************************************************)
NoBubble == [bubble_type |-> "none"]

RECURSIVE JoinTexts(_)
\* ' '.join([t.text for t in tokens])
JoinTexts(toks) ==
  IF toks = <<>> THEN ""
  ELSE IF Len(toks) = 1 THEN toks[1].text
  ELSE toks[1].text \o " " \o JoinTexts(Tail(toks))

RECURSIVE InSubtree(_, _, _)
\* token i is c or a descendant of c
InSubtree(sent, i, c) ==
  i = c \/ (sent[i].head # i /\ InSubtree(sent, sent[i].head, c))

RECURSIVE Pick(_, _, _)
\* the tokens of sent at the indices in keep, in index order, from k on
Pick(sent, keep, k) ==
  IF k > Len(sent) THEN <<>>
  ELSE (IF k \in keep THEN <<sent[k]>> ELSE <<>>) \o Pick(sent, keep, k + 1)

Complementizers == {"if", "that", "whether", "how", "why", "when", "where"}

\* mutant: the word need not be followed by white space
StripComplementizer_AnyPrefix(content) ==
  LET lead == LeadingSpace(content)
      body == Slice(content, lead, Len(content))
      hit == {w \in Complementizers : Lower(Slice(body, 0, Len(w))) = w}
  IN IF hit = {} THEN content
     ELSE LET w == CHOOSE x \in hit : TRUE
              rest == Slice(body, Len(w), Len(body))
          IN Slice(rest, LeadingSpace(rest), Len(rest))

\* re.sub(r'^\s*(if|that|whether|how|why|when|where)\s+', '', content,
\*        flags=re.IGNORECASE)
StripComplementizer(content) ==
  LET lead == LeadingSpace(content)
      body == Slice(content, lead, Len(content))
      hit == {w \in Complementizers :
                /\ Lower(Slice(body, 0, Len(w))) = w
                /\ Len(body) > Len(w)
                /\ IsSpace(At(body, Len(w)))}
  IN IF hit = {} THEN content
     ELSE LET w == CHOOSE x \in hit : TRUE
              rest == Slice(body, Len(w), Len(body))
          IN Slice(rest, LeadingSpace(rest), Len(rest))

\* mutant: a dependent labelled acl counts as a clause too
extract_speech_content_AclToo(sent, verb) ==
  LET clauses == {c \in 1..Len(sent) :
                    /\ c # verb
                    /\ sent[c].head = verb
                    /\ sent[c].dep_ \in {"ccomp", "xcomp", "advcl", "acl"}}
  IN IF clauses = {} THEN ""
     ELSE LET child == CHOOSE c \in clauses : \A d \in clauses : c <= d
              tokens == Pick(sent, {i \in 1..Len(sent) : InSubtree(sent, i, child)}, 1)
          IN Strip(StripComplementizer(JoinTexts(tokens)))

\* "" stands for None as well: the caller tests  if not content
extract_speech_content(sent, verb) ==
  LET clauses == {c \in 1..Len(sent) :
                    /\ c # verb
                    /\ sent[c].head = verb
                    /\ sent[c].dep_ \in {"ccomp", "xcomp", "advcl"}}
  IN IF clauses = {} THEN ""
     ELSE LET child == CHOOSE c \in clauses : \A d \in clauses : c <= d
              tokens == Pick(sent, {i \in 1..Len(sent) : InSubtree(sent, i, child)}, 1)
          IN Strip(StripComplementizer(JoinTexts(tokens)))

VerbType(lemma) ==
  IF lemma \in SHOUT_VERBS THEN "shout"
  ELSE IF lemma \in THOUGHT_VERBS THEN "thought"
  ELSE IF lemma \in SPEECH_VERBS THEN "speech"
  ELSE "none"

\* mutant: the sentence is searched for a Shout verb first, then for a
\* Thought verb, then for a Speech verb
convert_indirect_speech_BySet(sent, src) ==
  LET OfType(t) == {i \in 1..Len(sent) : VerbType(Lower(sent[i].lemma_)) = t}
      verbs == IF OfType("shout") # {} THEN OfType("shout")
               ELSE IF OfType("thought") # {} THEN OfType("thought")
               ELSE OfType("speech")
  IN IF verbs = {} THEN NoBubble
     ELSE LET main_verb == CHOOSE i \in verbs : \A j \in verbs : i <= j
              verb_type == VerbType(Lower(sent[main_verb].lemma_))
              subjects == {i \in 1..Len(sent) :
                             sent[i].dep_ = "nsubj" /\ sent[i].head = main_verb}
              character == IF subjects = {} THEN ""
                           ELSE sent[CHOOSE i \in subjects : \A j \in subjects : i <= j].text
              content == extract_speech_content(sent, main_verb)
          IN IF content = "" THEN NoBubble
             ELSE TextBubble(verb_type, convert_to_first_person(content, character),
                             character, src)

\* mutant: the first nsubj token is the subject, whatever its head
convert_indirect_speech_AnySubject(sent, src) ==
  LET verbs == {i \in 1..Len(sent) : VerbType(Lower(sent[i].lemma_)) # "none"}
  IN IF verbs = {} THEN NoBubble
     ELSE LET main_verb == CHOOSE i \in verbs : \A j \in verbs : i <= j
              verb_type == VerbType(Lower(sent[main_verb].lemma_))
              subjects == {i \in 1..Len(sent) : sent[i].dep_ = "nsubj"}
              character == IF subjects = {} THEN ""
                           ELSE sent[CHOOSE i \in subjects : \A j \in subjects : i <= j].text
              content == extract_speech_content(sent, main_verb)
          IN IF content = "" THEN NoBubble
             ELSE TextBubble(verb_type, convert_to_first_person(content, character),
                             character, src)

\* src: the sentence's offset in the paragraph (see TextBubble)
convert_indirect_speech(sent, src) ==
  LET verbs == {i \in 1..Len(sent) : VerbType(Lower(sent[i].lemma_)) # "none"}
  IN IF verbs = {} THEN NoBubble
     ELSE LET main_verb == CHOOSE i \in verbs : \A j \in verbs : i <= j
              verb_type == VerbType(Lower(sent[main_verb].lemma_))
              subjects == {i \in 1..Len(sent) :
                             sent[i].dep_ = "nsubj" /\ sent[i].head = main_verb}
              character == IF subjects = {} THEN ""
                           ELSE sent[CHOOSE i \in subjects : \A j \in subjects : i <= j].text
              content == extract_speech_content(sent, main_verb)
          IN IF content = "" THEN NoBubble
             ELSE TextBubble(verb_type, convert_to_first_person(content, character),
                             character, src)

(***************************************************************************)
(* _process_text_segment and _process_pure_narrative: the same loop over   *)
(* the sentences of a document.  off is the offset of text in the          *)
(* paragraph.                                                              *)
(***************************************************************************)
RECURSIVE SentenceBubbles_DropsUnconverted(_, _, _, _)
\* mutant: a sentence that is not converted is dropped
SentenceBubbles_DropsUnconverted(text, off, doc, k) ==
  IF k > Len(doc) THEN <<>>
  ELSE LET converted == convert_indirect_speech(doc[k], off + doc[k][1].idx)
       IN (IF converted # NoBubble THEN <<converted>> ELSE <<>>)
          \o SentenceBubbles_DropsUnconverted(text, off, doc, k + 1)

RECURSIVE SentenceBubbles_KeepsBlank(_, _, _, _)
\* mutant: a sentence whose trimmed text is empty is not skipped
SentenceBubbles_KeepsBlank(text, off, doc, k) ==
  IF k > Len(doc) THEN <<>>
  ELSE LET sent_text == Strip(SentText(text, doc[k]))
           src == off + doc[k][1].idx
           converted == convert_indirect_speech(doc[k], src)
       IN (IF converted # NoBubble THEN <<converted>>
           ELSE <<TextBubble("scene", sent_text, "", src)>>)
          \o SentenceBubbles_KeepsBlank(text, off, doc, k + 1)

RECURSIVE SentenceBubbles(_, _, _, _)
SentenceBubbles(text, off, doc, k) ==
  IF k > Len(doc) THEN <<>>
  ELSE LET sent == doc[k]
           sent_text == Strip(SentText(text, sent))
           src == off + sent[1].idx
           converted == convert_indirect_speech(sent, src)
       IN (IF sent_text = "" THEN <<>>
           ELSE IF converted # NoBubble THEN <<converted>>
           ELSE <<TextBubble("scene", sent_text, "", src)>>)
          \o SentenceBubbles(text, off, doc, k + 1)

process_text_segment(text, off, doc) == SentenceBubbles(text, off, doc, 1)

process_pure_narrative(text, doc) == SentenceBubbles(text, 0, doc, 1)

(***************************************************************************)
(* _sort_bubbles_by_position.                                              *)
(***************************************************************************)
NOT_FOUND_POSITION == 999999

get_position(bubble, original_text) ==
  LET pos == Find(Lower(original_text), Lower(bubble.text))
  IN IF pos = -1
     THEN (IF bubble.character # ""
           THEN Find(Lower(original_text), Lower(bubble.character))
           ELSE NOT_FOUND_POSITION)
     ELSE pos

RECURSIVE SortedByPosition(_, _)
\* sorted(bubbles, key=get_position): stable
SortedByPosition(bs, original_text) ==
  IF bs = <<>> THEN <<>>
  ELSE LET rest == SortedByPosition(SubSeq(bs, 1, Len(bs) - 1), original_text)
           x == bs[Len(bs)]
           n == Cardinality({i \in 1..Len(rest) :
                  get_position(rest[i], original_text) <= get_position(x, original_text)})
       IN SubSeq(rest, 1, n) \o <<x>> \o SubSeq(rest, n + 1, Len(rest))

\* mutant: the bubbles are returned in the order they were appended
sort_bubbles_AsAppended(bs, original_text) == bs

sort_bubbles_by_position(bs, original_text) == SortedByPosition(bs, original_text)

(***************************************************************************)
(* Inputs.                                                                 *)
(***************************************************************************)
RECURSIVE TextsOf(_, _)
\* the texts made of at most n pieces
TextsOf(pieces, n) ==
  IF n = 0 THEN {""}
  ELSE LET shorter == TextsOf(pieces, n - 1)
       IN shorter \cup {t \o p : t \in shorter, p \in pieces}

MaxPieces == 3

\* paragraphs of process_paragraph: a sentence, a sentence that ends with
\* the same words, a quote of the same words, a reporting clause, a clause
\* it may govern, a stray quotation mark
Pieces == {"a.", "b a.", " ", "'a.'", "Jo cried", " if he runs.", "\""}

Paragraphs == TextsOf(Pieces, MaxPieces)

MaxChars == 5

\* texts of the Quote Locator: straight and curly quotation marks, a
\* letter, a blank and a line break
LocatorChars == {"'", "\"", U201C, U201D, "a", " ", "\n"}

LocatorTexts == TextsOf(LocatorChars, MaxChars)

MaxWords == 4

\* quoted texts of the Quote Classifier, with or without white space around
QuoteWords == {"a", "a!", "A!"}

QuoteTexts ==
  {lead \o Strip(t) \o trail :
     t \in TextsOf({w \o " " : w \in QuoteWords}, MaxWords) \ {""},
     lead \in {"", " "}, trail \in {"", " "}}

Contexts == {"", "Jo cried ", "He YELLED, ", " in the crypt", " she mused", " he said."}

ClassifierParagraphs ==
  {b \o "\"" \o q \o "\"" \o a : b \in Contexts, q \in QuoteTexts, a \in Contexts}

(***************************************************************************)
(* process_paragraph, step by step.                                        *)
(***************************************************************************)
Start(inputs) ==
  /\ paragraph \in inputs
  /\ pc = "start"
  /\ quote_info = <<>>
  /\ qi = 0
  /\ bubbles = <<>>
  /\ processed_ranges = <<>>
  /\ non_quote_text = <<>>
  /\ si = 0
  /\ returned = <<>>

\* the extractor instance after construction: the engine has annotated nothing
Constructed ==
  /\ engine = <<>>
  /\ ner = <<>>

NoFrame == [pc |-> "none"]

\* one call of process_paragraph, and no method called on its own
OneCall ==
  /\ parked = NoFrame
  /\ args = <<>>
  /\ value = <<>>

Init == Start(Paragraphs) /\ Constructed /\ OneCall

\* quote_info = self._find_all_quotes_with_context(paragraph)
FindQuotes ==
  /\ pc = "start"
  /\ quote_info' = find_all_quotes_with_context(paragraph)
  /\ pc' = IF quote_info' = <<>> THEN "narrative" ELSE "quotes"
  /\ qi' = 1
  /\ UNCHANGED <<paragraph, bubbles, processed_ranges, non_quote_text, si, returned>>
  /\ UNCHANGED <<engine, ner, parked, args, value>>

\* if not quote_info: return self._process_pure_narrative(paragraph)
PureNarrative ==
  /\ pc = "narrative"
  /\ \E doc \in Annotate(paragraph) :
       /\ returned' = process_pure_narrative(paragraph, doc)
       /\ engine' = Remember(engine, paragraph, doc)
  /\ pc' = "done"
  /\ UNCHANGED <<paragraph, quote_info, qi, bubbles, processed_ranges, non_quote_text, si>>
  /\ UNCHANGED <<ner, parked, args, value>>

\* one pass of  for quote_data in quote_info
QuoteLoop ==
  /\ pc = "quotes"
  /\ qi <= Len(quote_info)
  /\ LET q == quote_info[qi]
         context == q.before_ctx \o " " \o q.after_ctx
     IN /\ \E character \in Recognize(context) :
             /\ bubbles' = Append(bubbles,
                             create_quote_bubble(q.quote_text, q.before_ctx, q.after_ctx,
                                                 character, q.start))
             /\ ner' = Remember(ner, context, character)
        /\ processed_ranges' = Append(processed_ranges, <<q.start, q.end>>)
  /\ qi' = qi + 1
  /\ pc' = IF qi = Len(quote_info) THEN "extract" ELSE "quotes"
  /\ UNCHANGED <<paragraph, quote_info, non_quote_text, si, returned>>
  /\ UNCHANGED <<engine, parked, args, value>>

\* non_quote_text = self._extract_non_quoted_text(paragraph, processed_ranges);
\* with no segment left the loop is skipped and the bubbles are sorted
ExtractNonQuoted ==
  /\ pc = "extract"
  /\ non_quote_text' = extract_non_quoted_text(paragraph, processed_ranges)
  /\ si' = 1
  /\ IF non_quote_text' = <<>>
     THEN /\ returned' = sort_bubbles_by_position(bubbles, paragraph)
          /\ pc' = "done"
     ELSE /\ returned' = returned
          /\ pc' = "segments"
  /\ UNCHANGED <<paragraph, quote_info, qi, bubbles, processed_ranges>>
  /\ UNCHANGED <<engine, ner, parked, args, value>>

\* one pass of  for text_segment in non_quote_text ; after the last one the
\* bubbles are sorted and returned
SegmentLoop ==
  /\ pc = "segments"
  /\ si <= Len(non_quote_text)
  /\ LET seg == non_quote_text[si]
     IN \E doc \in Annotate(seg.text) :
          /\ bubbles' = bubbles \o process_text_segment(seg.text, seg.off, doc)
          /\ engine' = Remember(engine, seg.text, doc)
          /\ IF si = Len(non_quote_text)
             THEN /\ returned' = sort_bubbles_by_position(bubbles', paragraph)
                  /\ pc' = "done"
             ELSE /\ returned' = returned
                  /\ pc' = "segments"
  /\ si' = si + 1
  /\ UNCHANGED <<paragraph, quote_info, qi, processed_ranges, non_quote_text>>
  /\ UNCHANGED <<ner, parked, args, value>>

Next == FindQuotes \/ PureNarrative \/ QuoteLoop \/ ExtractNonQuoted \/ SegmentLoop

Spec == Init /\ [][Next]_vars

\* the Quote Locator alone, over every short text
InitLocator == Start(LocatorTexts) /\ Constructed /\ OneCall

NextLocator == FindQuotes

SpecLocator == InitLocator /\ [][NextLocator]_vars

\* the Quote Locator and the Quote Classifier on one quote in its context
InitClassifier == Start(ClassifierParagraphs) /\ Constructed /\ OneCall

NextClassifier == FindQuotes \/ QuoteLoop

SpecClassifier == InitClassifier /\ [][NextClassifier]_vars

(***************************************************************************)
(* The properties.                                                         *)
(***************************************************************************)
Done == pc = "done"

\* process_paragraph took the quote path: the Quote Locator found a span
QuotePath == quote_info # <<>>

\* the offsets at which n occurs in h, letter for letter
ExactOccurrences(h, n) ==
  {i \in 0..(Len(h) - Len(n)) : SubSeq(h, i + 1, i + Len(n)) = n}

\* the offsets at which needle occurs in hay, letter case ignored
Occurrences(hay, needle) == ExactOccurrences(Lower(hay), Lower(needle))

Least(S) == CHOOSE x \in S : \A y \in S : x <= y

\* The position key as the specification words it: the first occurrence of
\* the bubble's text, else of its character name when it has one, else a
\* sentinel past every offset.
PositionKey(b) ==
  IF Occurrences(paragraph, b.text) # {} THEN Least(Occurrences(paragraph, b.text))
  ELSE IF b.character # "" /\ Occurrences(paragraph, b.character) # {}
       THEN Least(Occurrences(paragraph, b.character))
  ELSE Len(paragraph) + 1

KeysAscend ==
  \A i, j \in 1..Len(returned) :
    i < j => PositionKey(returned[i]) <= PositionKey(returned[j])

\* C1: in the sequence process_paragraph returns, a bubble whose source (its
\* quoted span or its residual sentence) starts earlier in the paragraph
\* comes before a bubble whose source starts later.
C1_OrderedBySource ==
  Done => \A i, j \in 1..Len(returned) :
            returned[i].src < returned[j].src => i < j

\* C2, as claimed: for every paragraph, with or without quoted spans, the
\* returned sequence is in non-decreasing order of the position key.
C2_SortedOnEveryPath == Done => KeysAscend

\* C2, amended: when the Quote Locator found at least one span, the
\* returned sequence is in non-decreasing order of the position key.
C2_SortedOnQuotePath == (Done /\ QuotePath) => KeysAscend

\* C2 witness: a quote-path call whose sort moved a located sentence in
\* front of the quote bubble that was appended before it.
C2_SortMovedABubble ==
  /\ Done
  /\ QuotePath
  /\ Len(returned) >= 2
  /\ returned # bubbles
  /\ PositionKey(returned[1]) < PositionKey(returned[Len(returned)])

\* the spans and the residual segments that hold the character at offset i
SpansAt(i) ==
  {k \in 1..Len(quote_info) : quote_info[k].start <= i /\ i < quote_info[k].end}

SegmentsAt(i) ==
  {k \in 1..Len(non_quote_text) :
     /\ non_quote_text[k].off <= i
     /\ i < non_quote_text[k].off + Len(non_quote_text[k].text)}

\* C3: coverage.  Once the residual segments are computed, no character is
\* in two QuoteSpans, or in a QuoteSpan and a residual segment, or in two
\* residual segments, and every character that is not white space is in
\* one of them.
C3_Coverage ==
  (QuotePath /\ pc \in {"segments", "done"}) =>
    \A i \in 0..(Len(paragraph) - 1) :
      /\ Cardinality(SpansAt(i)) + Cardinality(SegmentsAt(i)) <= 1
      /\ ~IsSpace(At(paragraph, i)) =>
           Cardinality(SpansAt(i)) + Cardinality(SegmentsAt(i)) = 1

\* a reporting clause that ends with its speech or shout verb, so that the
\* verb governs no complement clause: "Jo cried", "John said,"
IsBareAttribution(text) ==
  LET toks == Tokenize(text)
      words == {i \in 1..Len(toks) : IsWord(toks[i])}
      verbs == {i \in words : Lemmatize(toks[i].text) \in
                                SPEECH_VERBS \cup THOUGHT_VERBS \cup SHOUT_VERBS}
  IN /\ Cardinality(verbs) = 1
     /\ \A v \in verbs :
          /\ Lemmatize(toks[v].text) \in SPEECH_VERBS \cup SHOUT_VERBS
          /\ \A w \in words : w <= v

\* C4: a paragraph of one quoted span and, outside it, a reporting clause
\* whose verb has no complement clause yields exactly one bubble: the
\* quote's, typed by the Quote Classifier.
C4_AttributionYieldsNoBubble ==
  ( /\ Done
    /\ Len(quote_info) = 1
    /\ Len(non_quote_text) = 1
    /\ IsBareAttribution(non_quote_text[1].text) )
  => /\ Len(returned) = 1
     /\ returned[1].text = quote_info[1].quote_text
     /\ returned[1].bubble_type \in {"speech", "thought", "shout"}

IsLetter(c) == c \in UpperSet \cup LowerSet

\* the context of quote q: what lies before it and what lies after it
ContextOf(q) == q.before_ctx \o " " \o q.after_ctx

\* verb occurs in the context, as a word or inside a longer word
OccursIn(verbs, context) ==
  LET c == Lower(context)
  IN \E v \in verbs : ExactOccurrences(c, Lower(v)) # {}

\* verb occurs in the context as a whole word: no letter on either side
WholeWordIn(verbs, context) ==
  LET c == Lower(context)
  IN \E v \in verbs : \E i \in ExactOccurrences(c, Lower(v)) :
       /\ i = 0 \/ ~IsLetter(At(c, i - 1))
       /\ i + Len(v) = Len(c) \/ ~IsLetter(At(c, i + Len(v)))

\* rules 2 and 3 of the Quote Classifier
PunctuationShout(t) ==
  \/ IsUpper(t)
  \/ Count(t, "!") >= 2
  \/ (EndsWith(t, "!") /\ WordCount(t) <= 3)

\* the quotes for which a bubble has been created
Classified == 1..Len(bubbles)

\* C5: rule 1 fires only on whole words.  A quote that rules 2 and 3 do not
\* make a Shout is a Shout exactly when its context holds a Shout-set verb
\* as a whole word.
C5_ShoutVerbIsWholeWord ==
  \A k \in Classified :
    ~PunctuationShout(quote_info[k].quote_text) =>
      (bubbles[k].bubble_type = "shout"
         <=> WholeWordIn(SHOUT_VERBS, ContextOf(quote_info[k])))

\* C6: whenever the context of a quote holds a Shout-set verb the bubble is
\* a Shout, whatever the quote's casing, its '!' characters, its word count
\* and the Thought-set verbs of the same context.
C6_ShoutVerbOutranks ==
  \A k \in Classified :
    OccursIn(SHOUT_VERBS, ContextOf(quote_info[k])) => bubbles[k].bubble_type = "shout"

\* C6 witness: an all-lower-case quote of more than three words with a
\* single '!', in a context with a Shout verb and a Thought verb, is a Shout.
C6_ShoutDespiteThoughtVerb ==
  \E k \in Classified :
    LET t == quote_info[k].quote_text
    IN /\ OccursIn(SHOUT_VERBS, ContextOf(quote_info[k]))
       /\ OccursIn(THOUGHT_VERBS, ContextOf(quote_info[k]))
       /\ Lower(t) = t
       /\ Count(t, "!") = 1
       /\ WordCount(t) > 3
       /\ bubbles[k].bubble_type = "shout"

\* C7: with no Shout-set verb in the context, the bubble is a Shout exactly
\* when the quote is entirely upper-case, or has two or more '!', or ends
\* with '!' and has at most 3 words; otherwise a Thought exactly when the
\* context holds a Thought-set verb; otherwise a Speech.
C7_PunctuationThenThought ==
  \A k \in Classified :
    ~OccursIn(SHOUT_VERBS, ContextOf(quote_info[k])) =>
      bubbles[k].bubble_type =
        IF PunctuationShout(quote_info[k].quote_text) THEN "shout"
        ELSE IF OccursIn(THOUGHT_VERBS, ContextOf(quote_info[k])) THEN "thought"
        ELSE "speech"

\* C7 witness: a lower-case quote of at most 3 words that ends with its only
\* '!' is a Shout although the context holds a Thought verb and no Shout verb.
C7_ShortExclamationBeatsThought ==
  \E k \in Classified :
    LET t == quote_info[k].quote_text
    IN /\ ~OccursIn(SHOUT_VERBS, ContextOf(quote_info[k]))
       /\ OccursIn(THOUGHT_VERBS, ContextOf(quote_info[k]))
       /\ ~IsUpper(t)
       /\ Count(t, "!") = 1
       /\ EndsWith(t, "!")
       /\ WordCount(t) <= 3
       /\ bubbles[k].bubble_type = "shout"

Located == pc # "start"

\* C8: the Quote Locator returns its spans in strictly increasing
\* start_offset order: sorted, and no two spans with the same start.
C8_StartsStrictlyIncrease ==
  Located => \A i, j \in 1..Len(quote_info) :
               i < j => quote_info[i].start < quote_info[j].start

\* C8 witness: two spans are returned, and two pattern matches started at
\* the same offset, of which one was kept.
C8_DuplicateStartDropped ==
  /\ Located
  /\ Len(quote_info) >= 2
  /\ LET ms == AllMatches(paragraph, 1)
     IN \E i, j \in 1..Len(ms) : i # j /\ ms[i].start = ms[j].start

\* C9: the Quote Locator returns no span whose quoted content is empty or
\* white space only.
C9_NoBlankQuote ==
  Located => \A k \in 1..Len(quote_info) : Strip(quote_info[k].quote_text) # ""

\* C10: the text of a bubble created from a QuoteSpan is the span's quoted
\* text with leading and trailing white space removed.
C10_TextIsTrimmed ==
  \A k \in Classified : bubbles[k].text = Strip(quote_info[k].quote_text)

\* the sentences of text as the engine annotated them, text lying at offset
\* off of the paragraph: each with its trimmed text and its own offset
SentencesOf(text, off) ==
  {[sent |-> engine[text][k],
    text |-> Strip(SentText(text, engine[text][k])),
    src |-> off + engine[text][k][1].idx] : k \in 1..Len(engine[text])}

\* the sentences of the non-quoted text of a finished call
ResidualSentences ==
  IF QuotePath
  THEN UNION {SentencesOf(non_quote_text[k].text, non_quote_text[k].off) :
                k \in 1..Len(non_quote_text)}
  ELSE SentencesOf(paragraph, 0)

AllVerbs == SHOUT_VERBS \cup THOUGHT_VERBS \cup SPEECH_VERBS

\* the tokens of s whose lower-cased lemma is in a verb set
VerbTokens(s) == {i \in 1..Len(s) : Lower(s[i].lemma_) \in AllVerbs}

\* the direct dependents of token v that head a clause
ClauseDependents(s, v) ==
  {c \in 1..Len(s) : c # v /\ s[c].head = v /\ s[c].dep_ \in {"ccomp", "xcomp", "advcl"}}

\* no verb-set token, or a governing verb without a clause dependent
NoClause(s) ==
  \/ VerbTokens(s) = {}
  \/ ClauseDependents(s, Least(VerbTokens(s))) = {}

\* the indices of the returned bubbles made from the source at offset src
ReturnedFrom(src) == {k \in 1..Len(returned) : returned[k].src = src}

\* C11: scene fallback.  Every non-empty sentence of the non-quoted text
\* that has no verb-set token, or whose governing verb has no ccomp, xcomp
\* or advcl dependent, gives exactly one bubble of the returned sequence: a
\* Scene bubble whose text is the trimmed sentence text.
C11_SceneFallback ==
  Done =>
    \A s \in ResidualSentences :
      (s.text # "" /\ NoClause(s.sent)) =>
        /\ Cardinality(ReturnedFrom(s.src)) = 1
        /\ \A k \in ReturnedFrom(s.src) :
             /\ returned[k].bubble_type = "scene"
             /\ returned[k].text = s.text

\* C11 witness: beside a quote, a sentence whose governing verb has a
\* dependent clause of another label (acl) came back as one Scene bubble
\* with the sentence's text.
C11_UnconvertedSentenceIsScene ==
  /\ Done
  /\ QuotePath
  /\ \E s \in ResidualSentences :
       /\ VerbTokens(s.sent) # {}
       /\ \E c \in 1..Len(s.sent) :
            s.sent[c].head = Least(VerbTokens(s.sent)) /\ s.sent[c].dep_ = "acl"
       /\ \E k \in ReturnedFrom(s.src) :
            returned[k].bubble_type = "scene" /\ returned[k].text = s.text

(***************************************************************************)
(* _convert_to_first_person called on its own, on every short clause.      *)
(***************************************************************************)
MaxClauseWords == 3

RewriterWords == {"he", "was", "safe", "Jo", "they", "They", "survives"}

\* clauses: words separated by single blanks, with or without a closing
\* punctuation mark; and a clause that is a single blank
ClauseTexts ==
  {Strip(t) \o close :
     t \in TextsOf({w \o " " : w \in RewriterWords}, MaxClauseWords) \ {""},
     close \in {"", ".", "!", "?", ","}} \cup {" "}

\* no method is being called on its own: the locals of process_paragraph idle
Idle ==
  /\ paragraph = ""
  /\ quote_info = <<>>
  /\ qi = 0
  /\ bubbles = <<>>
  /\ processed_ranges = <<>>
  /\ non_quote_text = <<>>
  /\ si = 0
  /\ returned = <<>>
  /\ parked = NoFrame

InitRewriter ==
  /\ Idle
  /\ Constructed
  /\ pc = "rewrite"
  /\ args \in [text : ClauseTexts, character : {"", "Jo", "they"}]
  /\ value = ""

Rewrite ==
  /\ pc = "rewrite"
  /\ value' = convert_to_first_person(args.text, args.character)
  /\ pc' = "rewritten"
  /\ UNCHANGED <<paragraph, quote_info, qi, bubbles, processed_ranges, non_quote_text,
                 si, returned, engine, ner, parked, args>>

NextRewriter == Rewrite

SpecRewriter == InitRewriter /\ [][NextRewriter]_vars

Rewritten == pc = "rewritten"

\* the text as reassembled from the rewritten tokens, before it is finished
Reassembled ==
  LET result == RewriteTokens(DocTokens(args.text), args.character, <<>>)
  IN Reassemble(result, Len(result))

EndsSentence(s) == s # "" /\ At(s, Len(s) - 1) \in {".", "!", "?"}

\* C12: for every non-empty clause the Person Rewriter returns a string
\* whose first character is upper-cased and which ends with '.', '!' or
\* '?'; it is the reassembled text plus '?' exactly when the reassembled
\* text does not end with one of the three, and has no '?' added otherwise.
C12_CapitalisedAndPunctuated ==
  Rewritten =>
    /\ value # ""
    /\ ~IsLowerCh(At(value, 0))
    /\ EndsSentence(value)
    /\ Slice(value, 1, Len(value)) =
         Slice(Reassembled, 1, Len(Reassembled))
           \o (IF EndsSentence(Reassembled) THEN "" ELSE "?")

\* C12 witness: the clause "he was safe" with no character came back as
\* "I was safe?".
C12_HeWasSafe ==
  /\ Rewritten
  /\ args = [text |-> "he was safe", character |-> ""]
  /\ value = "I was safe?"

(***************************************************************************)
(* process_paragraph called a second time on the same extractor instance   *)
(* with the same paragraph.                                                *)
(***************************************************************************)
\* the locals of the running call
Frame ==
  [paragraph |-> paragraph, pc |-> pc, quote_info |-> quote_info, qi |-> qi,
   bubbles |-> bubbles, processed_ranges |-> processed_ranges,
   non_quote_text |-> non_quote_text, si |-> si, returned |-> returned]

\* mutant: the bubble list outlives the call, as an attribute of the
\* instance would
Again_KeepsBubbles ==
  /\ pc = "done"
  /\ parked = NoFrame
  /\ parked' = Frame
  /\ pc' = "start"
  /\ quote_info' = <<>>
  /\ qi' = 0
  /\ processed_ranges' = <<>>
  /\ non_quote_text' = <<>>
  /\ si' = 0
  /\ returned' = <<>>
  /\ UNCHANGED <<paragraph, bubbles, engine, ner, args, value>>

\* The first call has returned (parked keeps what it returned); the second
\* call starts with fresh locals on the instance as the first left it.
Again ==
  /\ pc = "done"
  /\ parked = NoFrame
  /\ parked' = Frame
  /\ pc' = "start"
  /\ quote_info' = <<>>
  /\ qi' = 0
  /\ bubbles' = <<>>
  /\ processed_ranges' = <<>>
  /\ non_quote_text' = <<>>
  /\ si' = 0
  /\ returned' = <<>>
  /\ UNCHANGED <<paragraph, engine, ner, args, value>>

NextTwice == Next \/ Again

SpecTwice == Init /\ [][NextTwice]_vars

\* the fields of the program's bubbles
Fields(bs) ==
  [k \in 1..Len(bs) |->
     [bubble_type |-> bs[k].bubble_type, text |-> bs[k].text,
      character |-> bs[k].character]]

SecondDone == Done /\ parked # NoFrame

\* C13: idempotence.  The second call on the same paragraph, the engine
\* annotating as it did, returns the sequence the first call returned:
\* same length, and the same bubble_type, text and character at every index.
C13_SecondRunReturnsTheSame ==
  SecondDone => Fields(returned) = Fields(parked.returned)

\* C13 witness: a second call has returned two or more bubbles, a quote's
\* and a converted sentence's among them.
C13_SecondRunOfQuoteAndConversion ==
  /\ SecondDone
  /\ QuotePath
  /\ Len(returned) >= 2
  /\ \E s \in ResidualSentences : ~NoClause(s.sent) /\ ReturnedFrom(s.src) # {}

\* C14: for the empty paragraph, and for a paragraph without quoted spans
\* that the engine splits into no sentence with a non-empty trimmed text,
\* process_paragraph goes through (its next step can always be taken) and
\* returns the empty sequence.
C14_EmptyParagraphGivesNoBubble ==
  /\ (pc = "narrative" /\ Strip(paragraph) = "") => ENABLED PureNarrative
  /\ (Done /\ ~QuotePath /\ \A s \in ResidualSentences : s.text = "")
       => returned = <<>>

\* C14 witness: the call on the empty paragraph has returned the empty
\* sequence.
C14_EmptyParagraphReturned ==
  /\ Done
  /\ paragraph = ""
  /\ returned = <<>>

BubbleTypes == {"speech", "thought", "shout", "scene"}

\* C15: every returned bubble has one of the four bubble types; a bubble
\* made from a quoted span is never a Scene (neither when it is created nor
\* in the returned sequence); and every returned Scene bubble is the trimmed
\* text of a residual sentence that has no verb-set token or whose governing
\* verb has no clause dependent.
C15_BubbleTypes ==
  /\ \A k \in 1..Len(quote_info) :
       k <= Len(bubbles) => bubbles[k].bubble_type \in BubbleTypes \ {"scene"}
  /\ Done =>
       /\ \A k \in 1..Len(returned) : returned[k].bubble_type \in BubbleTypes
       /\ \A q \in 1..Len(quote_info) :
            \E k \in ReturnedFrom(quote_info[q].start) :
              /\ returned[k].text = quote_info[q].quote_text
              /\ returned[k].bubble_type # "scene"
       /\ \A k \in 1..Len(returned) :
            returned[k].bubble_type = "scene" =>
              \E s \in ResidualSentences :
                /\ s.src = returned[k].src
                /\ s.text = returned[k].text
                /\ NoClause(s.sent)

\* C15 witness: a call returned a quote's bubble, which is not a Scene, and
\* the Scene bubble of a residual sentence.
C15_QuoteAndScene ==
  /\ Done
  /\ QuotePath
  /\ \E k \in ReturnedFrom(quote_info[1].start) : returned[k].bubble_type # "scene"
  /\ \E s \in ResidualSentences :
       \E k \in ReturnedFrom(s.src) : returned[k].bubble_type = "scene"

(***************************************************************************)
(* Two calls of process_paragraph in progress on one extractor instance    *)
(* (the module-level extractor of the HTTP layer).  One call runs, the     *)
(* locals of the other wait in parked; a switch may come between any two   *)
(* steps.  The instance, and so the engine and what it answers, is shared. *)
(***************************************************************************)
MaxThreadPieces == 2

\* a quote, a reporting clause, words it may govern
ThreadPieces == {"'a.'", "Jo cried", " b."}

ThreadParagraphs == TextsOf(ThreadPieces, MaxThreadPieces)

\* the locals of a call of process_paragraph(p) that has not taken a step
FreshFrame(p) ==
  [paragraph |-> p, pc |-> "start", quote_info |-> <<>>, qi |-> 0,
   bubbles |-> <<>>, processed_ranges |-> <<>>,
   non_quote_text |-> <<>>, si |-> 0, returned |-> <<>>]

InitThreads ==
  /\ Start(ThreadParagraphs)
  /\ Constructed
  /\ \E p \in ThreadParagraphs \ {paragraph} : parked = FreshFrame(p)
  /\ args = <<>>
  /\ value = <<>>

\* mutant: the bubble list belongs to the instance, not to the call
Switch_SharedBubbles ==
  /\ parked # NoFrame
  /\ parked.pc # "done"
  /\ parked' = Frame
  /\ paragraph' = parked.paragraph
  /\ pc' = parked.pc
  /\ quote_info' = parked.quote_info
  /\ qi' = parked.qi
  /\ processed_ranges' = parked.processed_ranges
  /\ non_quote_text' = parked.non_quote_text
  /\ si' = parked.si
  /\ returned' = parked.returned
  /\ UNCHANGED <<bubbles, engine, ner, args, value>>

\* the other call runs on: the locals of the two calls change places
Switch ==
  /\ parked # NoFrame
  /\ parked.pc # "done"
  /\ parked' = Frame
  /\ paragraph' = parked.paragraph
  /\ pc' = parked.pc
  /\ quote_info' = parked.quote_info
  /\ qi' = parked.qi
  /\ bubbles' = parked.bubbles
  /\ processed_ranges' = parked.processed_ranges
  /\ non_quote_text' = parked.non_quote_text
  /\ si' = parked.si
  /\ returned' = parked.returned
  /\ UNCHANGED <<engine, ner, args, value>>

NextThreads == Next \/ Switch

SpecThreads == InitThreads /\ [][NextThreads]_vars

\* What process_paragraph(p) returns when it runs alone from entry to
\* return, the engine answering as recorded.
RunAlone(p) ==
  LET qs == find_all_quotes_with_context(p)
      QuoteBubble(k) ==
        create_quote_bubble(qs[k].quote_text, qs[k].before_ctx, qs[k].after_ctx,
                            ner[qs[k].before_ctx \o " " \o qs[k].after_ctx], qs[k].start)
      segs == extract_non_quoted_text(p, [k \in 1..Len(qs) |-> <<qs[k].start, qs[k].end>>])
      SegmentBubbles[k \in 0..Len(segs)] ==
        IF k = 0 THEN <<>>
        ELSE SegmentBubbles[k - 1]
               \o process_text_segment(segs[k].text, segs[k].off, engine[segs[k].text])
  IN IF qs = <<>> THEN process_pure_narrative(p, engine[p])
     ELSE sort_bubbles_by_position(
            [k \in 1..Len(qs) |-> QuoteBubble(k)] \o SegmentBubbles[Len(segs)], p)

\* C16: whatever the interleaving of two calls on different paragraphs,
\* each call returns the sequence it returns when run alone.
C16_EachCallAsIfAlone ==
  /\ Done => returned = RunAlone(paragraph)
  /\ (parked # NoFrame /\ parked.pc = "done") => parked.returned = RunAlone(parked.paragraph)

\* C16 witness: a call has returned two or more bubbles, a quote's among
\* them, while the other call, switched out in the middle of its loops,
\* holds bubbles of its own.
C16_ReturnedWhileOtherInProgress ==
  /\ Done
  /\ QuotePath
  /\ Len(returned) >= 2
  /\ parked # NoFrame
  /\ parked.pc \in {"extract", "segments"}
  /\ parked.bubbles # <<>>

(***************************************************************************)
(* process_paragraph with an engine that may fail.  self.nlp is called in  *)
(* _process_pure_narrative, in _extract_character_from_text (for each      *)
(* quote) and in _process_text_segment and _convert_to_first_person (for   *)
(* each segment); process_paragraph and its helpers have no try statement, *)
(* so the exception leaves the call: pc = "raised".                        *)
(***************************************************************************)
\* mutant: the exception is caught and the bubbles made so far are returned
EngineFails_ReturnsPartial ==
  /\ pc \in {"narrative", "quotes", "segments"}
  /\ pc' = "raised"
  /\ returned' = bubbles
  /\ UNCHANGED <<paragraph, quote_info, qi, bubbles, processed_ranges, non_quote_text,
                 si, engine, ner, parked, args, value>>

EngineFails ==
  /\ pc \in {"narrative", "quotes", "segments"}
  /\ pc' = "raised"
  /\ UNCHANGED <<paragraph, quote_info, qi, bubbles, processed_ranges, non_quote_text,
                 si, returned, engine, ner, parked, args, value>>

NextFailing == Next \/ EngineFails

SpecFailing == Init /\ [][NextFailing]_vars

Raised == pc = "raised"

\* C17: once the engine has failed, the call has raised: it takes no
\* further step (it does not call the engine again and does not go on with
\* the next quote or segment) and it has returned no bubble sequence.
C17_FailurePropagates ==
  Raised =>
    /\ returned = <<>>
    /\ ~ENABLED NextFailing

\* C17 witness: the engine failed on a residual segment after the call had
\* made a quote's bubble; the bubble was not returned.
C17_RaisedWithBubblesInHand ==
  /\ Raised
  /\ si >= 1
  /\ bubbles # <<>>
  /\ returned = <<>>

(***************************************************************************)
(* _sort_bubbles_by_position called on its own, on every short list of     *)
(* bubbles.                                                                *)
(***************************************************************************)
MaxBubbles == 2

SortTexts == {"a.", "Jo a.", "b a. Al"}

\* bubbles whose text, and whose character name, is or is not in the text
SortBubbles ==
  {TextBubble("speech", t, c, 0) : t \in {"a.", "b a.", "I run?"}, c \in {"", "Jo", "Al"}}

RECURSIVE SeqsOf(_, _)
\* the sequences of at most n elements of S
SeqsOf(S, n) ==
  IF n = 0 THEN {<<>>}
  ELSE LET shorter == SeqsOf(S, n - 1)
       IN shorter \cup {Append(q, x) : q \in shorter, x \in S}

InitSort ==
  /\ Idle
  /\ Constructed
  /\ pc = "sort"
  /\ args \in [bubbles : SeqsOf(SortBubbles, MaxBubbles), original_text : SortTexts]
  /\ value = <<>>

Sort ==
  /\ pc = "sort"
  /\ value' = sort_bubbles_by_position(args.bubbles, args.original_text)
  /\ pc' = "sorted"
  /\ UNCHANGED <<paragraph, quote_info, qi, bubbles, processed_ranges, non_quote_text,
                 si, returned, engine, ner, parked, args>>

NextSort == Sort

SpecSort == InitSort /\ [][NextSort]_vars

Sorted == pc = "sorted"

\* s occurs in the original text, letter case ignored
FoundInText(s) == Occurrences(args.original_text, s) # {}

MaxTokens == 3

ClauseWords == {"if", "said", "cried"}

DepChoices == {"nsubj", "ccomp", "xcomp", "advcl", "acl"}

RECURSIVE Up(_, _, _)
\* the k-th ancestor of token i under the head links h
Up(h, i, k) == IF k = 0 THEN i ELSE Up(h, h[i], k - 1)

\* the head links of the dependency trees over n tokens: one root, which is
\* its own head, above every token
Trees(n) ==
  {h \in [1..n -> 1..n] :
     \E r \in 1..n :
       /\ \A i \in 1..n : h[i] = i <=> i = r
       /\ \A i \in 1..n : Up(h, i, n) = r}

RECURSIVE Offset(_, _)
\* the offset of word i in the words joined by single blanks
Offset(words, i) ==
  IF i = 1 THEN 0 ELSE Offset(words, i - 1) + Len(words[i - 1]) + 1

\* what the engine says of a word by itself
WordInfo ==
  [w \in ClauseWords |->
     [lemma_ |-> Lemmatize(w), pos_ |-> PosOf([text |-> w]), tag_ |-> TagOf([text |-> w])]]

\* the sentence of the given words, head links and labels, as the engine
\* hands it over
Parsed(words, h, dep) ==
  [i \in 1..Len(words) |->
     [text |-> words[i], idx |-> Offset(words, i), i |-> i,
      lemma_ |-> WordInfo[words[i]].lemma_,
      pos_ |-> WordInfo[words[i]].pos_,
      tag_ |-> WordInfo[words[i]].tag_,
      dep_ |-> IF h[i] = i THEN "ROOT" ELSE dep[i],
      head |-> h[i]]]

\* the labellings of the tokens under the head links h: the root is ROOT
Labellings(h) ==
  {dep \in [DOMAIN h -> DepChoices \cup {"ROOT"}] :
     \A i \in DOMAIN h : dep[i] = "ROOT" <=> h[i] = i}

\* the argument is any sentence of at most MaxTokens tokens
InitClause ==
  /\ Idle
  /\ Constructed
  /\ pc = "clause"
  /\ \E n \in 1..MaxTokens :
       \E h \in Trees(n) :
         \E words \in [1..n -> ClauseWords], dep \in Labellings(h) :
           args = [sent |-> Parsed(words, h, dep)]
  /\ value = <<>>

\* converted = self._convert_indirect_speech(sent)
Convert ==
  /\ pc = "clause"
  /\ value' = convert_indirect_speech(args.sent, 0)
  /\ pc' = "converted"
  /\ UNCHANGED <<paragraph, quote_info, qi, bubbles, processed_ranges, non_quote_text,
                 si, returned, engine, ner, parked, args>>

\* content = self._extract_speech_content(sent, main_verb), main_verb being
\* the governing verb _convert_indirect_speech has found
Extract ==
  /\ pc = "clause"
  /\ \E main_verb \in 1..Len(args.sent) :
       /\ VerbType(Lower(args.sent[main_verb].lemma_)) # "none"
       /\ \A i \in 1..(main_verb - 1) : VerbType(Lower(args.sent[i].lemma_)) = "none"
       /\ value' = extract_speech_content(args.sent, main_verb)
  /\ pc' = "extracted"
  /\ UNCHANGED <<paragraph, quote_info, qi, bubbles, processed_ranges, non_quote_text,
                 si, returned, engine, ner, parked, args>>

NextClause == Convert \/ Extract

SpecClause == InitClause /\ [][NextClause]_vars

Converted == pc = "converted"

\* the verb set of a lemma, the sets tried in the order Shout, Thought, Speech
SetOf(lemma) ==
  IF lemma \in SHOUT_VERBS THEN "shout"
  ELSE IF lemma \in THOUGHT_VERBS THEN "thought"
  ELSE "speech"

\* C19: the governing verb is the leftmost token whose lower-cased lemma is
\* in a verb set.  With no such token there is no conversion; otherwise
\* there is a conversion exactly when that token (not a later one) has a
\* clause dependent, and the bubble's type is the set of that token.
C19_LeftmostVerbGoverns ==
  Converted =>
    IF VerbTokens(args.sent) = {} THEN value = NoBubble
    ELSE LET v == Least(VerbTokens(args.sent))
         IN /\ value = NoBubble <=> ClauseDependents(args.sent, v) = {}
            /\ value # NoBubble => value.bubble_type = SetOf(Lower(args.sent[v].lemma_))

\* C19 witness: the leftmost verb is a Speech verb, a Shout verb follows
\* it, and the bubble is a Speech bubble.
C19_LaterShoutVerbIgnored ==
  /\ Converted
  /\ VerbTokens(args.sent) # {}
  /\ Lower(args.sent[Least(VerbTokens(args.sent))].lemma_) \in SPEECH_VERBS
  /\ \E i \in VerbTokens(args.sent) : Lower(args.sent[i].lemma_) \in SHOUT_VERBS
  /\ value # NoBubble
  /\ value.bubble_type = "speech"

Extracted == pc = "extracted"

\* the tokens of the subtree of token c: c and all its descendants
SubtreeOf(s, c) ==
  LET h == [i \in 1..Len(s) |-> s[i].head]
  IN {i \in 1..Len(s) : \E k \in 0..Len(s) : Up(h, i, k) = c}

RECURSIVE JoinFrom(_, _, _)
\* the texts of the tokens of s at the indices in I, from index k on, in
\* increasing index, with one blank between two of them
JoinFrom(s, I, k) ==
  IF k > Len(s) THEN ""
  ELSE IF k \notin I THEN JoinFrom(s, I, k + 1)
  ELSE s[k].text \o (IF \E j \in I : j > k THEN " " ELSE "") \o JoinFrom(s, I, k + 1)

\* the indices I without a leading complementizer that another token follows
AfterComplementizer(s, I) ==
  IF /\ Cardinality(I) >= 2
     /\ Lower(s[Least(I)].text) \in {"if", "that", "whether", "how", "why", "when", "where"}
  THEN I \ {Least(I)}
  ELSE I

\* C20, as claimed: _extract_speech_content returns the texts of exactly the
\* tokens of the subtree of the governing verb's first ccomp, xcomp or advcl
\* dependent, in increasing token index, joined by single blanks; and no
\* content when no dependent qualifies.
C20_ReturnsJoinedSubtree ==
  Extracted =>
    LET s == args.sent
        deps == ClauseDependents(s, Least(VerbTokens(s)))
    IN value = IF deps = {} THEN ""
               ELSE JoinFrom(s, SubtreeOf(s, Least(deps)), 1)

\* C20, amended: what _extract_speech_content returns is that joined text
\* without its leading complementizer (if, that, whether, how, why, when,
\* where, when another token follows it); and no content when no dependent
\* of the governing verb is labelled ccomp, xcomp or advcl.
C20_ReturnsSubtreeAfterComplementizer ==
  Extracted =>
    LET s == args.sent
        deps == ClauseDependents(s, Least(VerbTokens(s)))
    IN value = IF deps = {} THEN ""
               ELSE JoinFrom(s, AfterComplementizer(s, SubtreeOf(s, Least(deps))), 1)

\* C20 witness: the governing verb's first dependent is labelled acl and is
\* skipped; the content is the text of the clause dependent after it.
C20_AclDependentSkipped ==
  /\ Extracted
  /\ LET s == args.sent
         v == Least(VerbTokens(s))
         deps == ClauseDependents(s, v)
     IN /\ deps # {}
        /\ \E a \in 1..Len(s) : a < Least(deps) /\ s[a].head = v /\ s[a].dep_ = "acl"
        /\ value = JoinFrom(s, SubtreeOf(s, Least(deps)), 1)

(***************************************************************************)
(* The removal of the leading conjunction in _extract_speech_content, on   *)
(* every joined content of a few words.                                    *)
(***************************************************************************)
MaxStripWords == 3

StripWords == {"if", "That", "however", "he"}

\* ' '.join([t.text for t in tokens]): words separated by single blanks
StripContents ==
  {Strip(t) : t \in TextsOf({w \o " " : w \in StripWords}, MaxStripWords) \ {""}}

InitStrip ==
  /\ Idle
  /\ Constructed
  /\ pc = "strip"
  /\ args \in [content : StripContents]
  /\ value = ""

\* content = re.sub(...); return content.strip()
RemoveLeading ==
  /\ pc = "strip"
  /\ value' = Strip(StripComplementizer(args.content))
  /\ pc' = "stripped"
  /\ UNCHANGED <<paragraph, quote_info, qi, bubbles, processed_ranges, non_quote_text,
                 si, returned, engine, ner, parked, args>>

NextStrip == RemoveLeading

SpecStrip == InitStrip /\ [][NextStrip]_vars

Stripped == pc = "stripped"

\* the words of a content, in order
WordsOf(content) ==
  LET toks == Tokenize(content) IN [i \in 1..Len(toks) |-> toks[i].text]

RECURSIVE JoinWords(_)
JoinWords(ws) ==
  IF ws = <<>> THEN ""
  ELSE IF Len(ws) = 1 THEN ws[1]
  ELSE ws[1] \o " " \o JoinWords(Tail(ws))

\* C21: complementizer stripping removes at most one word and only at the
\* start of the joined content: when the first word is, in any letter case,
\* one of if, that, whether, how, why, when, where and white space follows
\* it, that word and the white space are removed; in every other case (the
\* word occurs later, or the first word only starts with one of them, as
\* 'however' does) the content is returned unchanged.
C21_OnlyLeadingWordRemoved ==
  Stripped =>
    LET ws == WordsOf(args.content)
    IN value = IF Len(ws) >= 2 /\ Lower(ws[1]) \in Complementizers
               THEN JoinWords(Tail(ws))
               ELSE args.content

\* C21 witness: "if That he" came back as "That he": the leading "if" is
\* removed, the "That" after it is kept.
C21_SecondComplementizerKept ==
  /\ Stripped
  /\ args.content = "if That he"
  /\ value = "That he"

\* the nsubj tokens of s whose head is token v
SubjectsOf(s, v) == {i \in 1..Len(s) : s[i].dep_ = "nsubj" /\ s[i].head = v}

ClauseTokens == DocTokens(args.text)

Emitted == RewriteTokens(ClauseTokens, args.character, <<>>)

\* the first-person form of a pronoun, by its lower-cased third-person form
FirstPerson ==
  [he |-> "I", she |-> "I", him |-> "me", her |-> "me", his |-> "my",
   hers |-> "mine", himself |-> "myself", herself |-> "myself",
   they |-> "we", them |-> "us", their |-> "our", theirs |-> "ours"]

IsCharacter(tok) == args.character # "" /\ tok.text = args.character

\* C23: for each clause token exactly one replacement is emitted, by first
\* match: "I" when the character is not empty and the token's exact text
\* equals it; else the mapped first-person form when the lower-cased text
\* is a pronoun of the map; else the lemma or the original text.  As many
\* tokens are emitted as the clause has, and the returned text is made of
\* them.
C23_FirstMatchingRule ==
  Rewritten =>
    LET toks == ClauseTokens
        out == Emitted
    IN /\ Len(out) = Len(toks)
       /\ \A k \in 1..Len(toks) :
            IF IsCharacter(toks[k]) THEN out[k] = "I"
            ELSE IF Lower(toks[k].text) \in DOMAIN FirstPerson
                 THEN out[k] = FirstPerson[Lower(toks[k].text)]
            ELSE out[k] \in {toks[k].text, Lemmatize(toks[k].text)}
       /\ value = Finish(Reassemble(out, Len(out)))

\* C23 witness: the character is "they"; the token "they" became "I" (the
\* character rule, not the pronoun map) and the token "They" became "we".
C23_CharacterBeforePronoun ==
  /\ Rewritten
  /\ args = [text |-> "they They safe", character |-> "they"]
  /\ value = "I we safe?"

\* token k of toks is a third-person-singular-present verb that neither the
\* character rule nor the pronoun map applies to, and the token emitted
\* just before it is "i" or "we" in any letter case
Deconjugated(toks, out, k) ==
  /\ ~IsCharacter(toks[k])
  /\ Lower(toks[k].text) \notin DOMAIN FirstPerson
  /\ PosOf(toks[k]) = "VERB"
  /\ TagOf(toks[k]) = "VBZ"
  /\ k > 1
  /\ Lower(out[k - 1]) \in {"i", "we"}

\* C24: a token is replaced by its lemma if and only if it matched neither
\* the character rule nor the pronoun map, it is a VERB tagged VBZ, and the
\* token emitted just before it, lower-cased, is "i" or "we"; a VBZ verb
\* that is first in the clause or follows another emitted token keeps its
\* surface form.
C24_DeconjugatedAfterIOrWe ==
  Rewritten =>
    LET toks == ClauseTokens
        out == Emitted
    IN /\ \A k \in 1..Len(toks) :
            IF Deconjugated(toks, out, k) THEN out[k] = Lemmatize(toks[k].text)
            ELSE TagOf(toks[k]) = "VBZ" => out[k] = toks[k].text
       /\ value = Finish(Reassemble(out, Len(out)))

\* C24 witness: the clause "they survives" came back as "We survive?".
C24_TheySurvives ==
  /\ Rewritten
  /\ args = [text |-> "they survives", character |-> ""]
  /\ value = "We survive?"

(***************************************************************************)
(* The verb tables of the other two extractor modules, as their class      *)
(* bodies construct them.  No statement of any module assigns to a table   *)
(* or calls a method on it: the tables are read with  in  and iterated     *)
(* over, so they are definitions here and not variables.                   *)
(***************************************************************************)
dialogue_generator_VERBS ==
  [SPEECH_VERBS |->
     {"say", "said", "says", "ask", "asked", "asks", "reply", "replied",
     "replies", "answer", "answered", "answers", "whisper", "whispered",
     "whispers", "mutter", "muttered", "mutters", "state", "stated",
     "states", "mention", "mentioned", "mentions", "tell", "told", "tells",
     "speak", "spoke", "speaks", "respond", "responded", "responds",
     "remark", "remarked", "remarks", "announce", "announced", "announces",
     "declare", "declared", "declares", "call", "called", "calls", "add",
     "added", "adds", "continue", "continued", "continues"},
   THOUGHT_VERBS |->
     {"think", "thought", "thinks", "wonder", "wondered", "wonders",
     "ponder", "pondered", "ponders", "consider", "considered", "considers",
     "realize", "realized", "realizes", "figure", "figured", "figures",
     "imagine", "imagined", "imagines", "believe", "believed", "believes",
     "feel", "felt", "feels", "remember", "remembered", "remembers",
     "recall", "recalled", "recalls", "muse", "mused", "muses", "reflect",
     "reflected", "reflects", "reckon", "reckoned", "reckons"},
   SHOUT_VERBS |->
     {"shout", "shouted", "shouts", "yell", "yelled", "yells", "scream",
     "screamed", "screams", "cry", "cried", "cries", "holler", "hollered",
     "hollers", "bellow", "bellowed", "bellows", "roar", "roared", "roars",
     "exclaim", "exclaimed", "exclaims", "shriek", "shrieked", "shrieks"}]

comic_bubble_extractor_VERBS ==
  [SPEECH_VERBS |->
     {"say", "said", "ask", "asked", "reply", "replied", "answer",
     "answered", "whisper", "whispered", "mutter", "muttered", "tell",
     "told", "speak", "spoke", "respond", "remark", "stated", "declared",
     "announced", "added", "called", "continued"},
   THOUGHT_VERBS |->
     {"think", "thought", "wonder", "wondered", "ponder", "consider",
     "realized", "believe", "remember", "recall", "mused", "reflect",
     "reckon", "felt", "figure"},
   SHOUT_VERBS |->
     {"shout", "shouted", "yell", "yelled", "scream", "screamed", "cry",
     "cried", "holler", "roar", "exclaim", "shriek"}]

\* the tables of text_bubble_extractor/demo.py
demo_VERBS ==
  [SPEECH_VERBS |-> SPEECH_VERBS, THOUGHT_VERBS |-> THOUGHT_VERBS,
   SHOUT_VERBS |-> SHOUT_VERBS]

PairwiseDisjoint(t) ==
  /\ t.SPEECH_VERBS \cap t.THOUGHT_VERBS = {}
  /\ t.SPEECH_VERBS \cap t.SHOUT_VERBS = {}
  /\ t.THOUGHT_VERBS \cap t.SHOUT_VERBS = {}

\* the tables that hold the lemma of a word
TablesHolding(word) ==
  {t \in {SPEECH_VERBS, THOUGHT_VERBS, SHOUT_VERBS} : Lemmatize(word) \in t}

\* C25: in every extractor module the sets SPEECH_VERBS, THOUGHT_VERBS and
\* SHOUT_VERBS are pairwise disjoint, in every state the extractor's
\* operations reach: no operation adds to them or removes from them (the
\* tables of the module the operations run in hold the 51, 42 and 27
\* lemmas they were constructed with), and no word of the paragraph in hand
\* has its lemma in two of them.
C25_VerbTablesDisjoint ==
  /\ PairwiseDisjoint(demo_VERBS)
  /\ PairwiseDisjoint(dialogue_generator_VERBS)
  /\ PairwiseDisjoint(comic_bubble_extractor_VERBS)
  /\ Cardinality(SPEECH_VERBS) = 51
  /\ Cardinality(THOUGHT_VERBS) = 42
  /\ Cardinality(SHOUT_VERBS) = 27
  /\ LET toks == Tokenize(paragraph)
     IN \A k \in 1..Len(toks) : Cardinality(TablesHolding(toks[k].text)) <= 1

\* C25 witness: a call on a paragraph with the Shout verb "cried" has
\* returned a Shout bubble.
C25_TablesWereRead ==
  /\ Done
  /\ Contains(paragraph, "cried")
  /\ \E i \in 1..Len(returned) : returned[i].bubble_type = "shout"

(***************************************************************************)
(* The Quote Locator of the copy in comic_generator/dialogue_generator.py. *)
(* Its pattern list differs from the one above in the fourth pattern,      *)
(* which is the straight-double pattern once more; the loop over the       *)
(* patterns, the sort and the seen_positions loop are the same statements. *)
(***************************************************************************)
dialogue_generator_patterns ==
  << {<<q, q>> : q \in {"\"", U2018, U2019, U201C, U201D, "'"}},
     {<<"\"", "\"">>},
     {<<"'", "'">>},
     {<<"\"", "\"">>},
     {<<U2018, U2019>>} >>

RECURSIVE dialogue_generator_AllMatches(_, _)
dialogue_generator_AllMatches(text, k) ==
  IF k > Len(dialogue_generator_patterns) THEN <<>>
  ELSE FindIter(text, dialogue_generator_patterns[k], 0)
         \o dialogue_generator_AllMatches(text, k + 1)

dialogue_generator_find_all_quotes_with_context(text) ==
  UniqueQuotes(SortByStart(dialogue_generator_AllMatches(text, 1)), {})

\* the copy's extractor is given the same paragraph:
\* quote_info = self._find_all_quotes_with_context(paragraph)
FindQuotesCopy ==
  /\ value = <<>>
  /\ value' = [quote_info |-> dialogue_generator_find_all_quotes_with_context(paragraph)]
  /\ UNCHANGED <<paragraph, pc, quote_info, qi, bubbles, processed_ranges,
                 non_quote_text, si, returned, engine, ner, parked, args>>

NextCopies == FindQuotes \/ FindQuotesCopy

SpecCopies == InitLocator /\ [][NextCopies]_vars

BothLocated == pc # "start" /\ value # <<>>

\* C26: the two copies of the extractor are equivalent: given the same
\* paragraph their Quote Locators return the same spans, for every quote
\* style (straight double, straight single, curly double with distinct
\* opening and closing characters, curly single).
C26_CopiesLocateTheSame ==
  BothLocated => value.quote_info = quote_info

(***************************************************************************)
(* The orchestrator: generate_comic_book of comic_generator/orchestrator.py *)
(* called on its own.  args is the request; value holds the handler's      *)
(* locals (scenes, the loop index i, the file name and the bubble data of  *)
(* the panel in hand, panels) and calls, the service functions that have   *)
(* returned or raised so far, in order; pc is the await the handler is at. *)
(* A scene is its number in the list, dialogues and positions are their    *)
(* counts.  Every service answers or fails as it pleases.                  *)
(***************************************************************************)
MaxPanels == 2

MaxRequestBubbles == 1

ComicBookRequest == [num_panels : 0..MaxPanels, num_bubbles : 0..MaxRequestBubbles]

\* image_filename and final_image of panel i
image_filename(i) == "panel_" \o ToString(i) \o ".png"

final_image(i) == "panel_" \o ToString(i) \o "_final.png"

InitComic ==
  /\ Idle
  /\ Constructed
  /\ pc = "scenes"
  /\ args \in ComicBookRequest
  /\ value = [scenes |-> <<>>, i |-> 0, positions |-> 0, bubbles |-> 0,
              panels |-> <<>>, calls |-> <<>>]

Called(fn, panel, ok) == Append(value.calls, [fn |-> fn, panel |-> panel, ok |-> ok])

\* mutant: the PDF is made as soon as one panel is there
AfterPanel_PdfAtOnce(v) == "pdf"

\* the for loop goes on to the next scene, or is left for step 6
AfterPanel(v) == IF v.i + 1 < Len(v.scenes) THEN "image" ELSE "pdf"

\* panels.append(panel_data), and on to the next pass of the loop
Appended(v, image_path, merged, calls) ==
  [v EXCEPT !.panels = Append(v.panels, [scene |-> v.scenes[v.i + 1],
                                         image_path |-> image_path,
                                         bubbles |-> merged]),
            !.i = v.i + 1,
            !.positions = 0,
            !.bubbles = 0,
            !.calls = calls]

\* mutant: the output path is returned whether the renderer answered or not
add_bubbles_to_image_AlwaysFinal(image_path, merged, output_path, ok) ==
  IF merged = 0 THEN image_path ELSE output_path

\* what add_bubbles_to_image returns: ok is whether the renderer answered
add_bubbles_to_image(image_path, merged, output_path, ok) ==
  IF merged = 0 THEN image_path
  ELSE IF ok THEN output_path
  ELSE image_path

\* scenes = await generate_scenes(...): the service fails, or parsed of its
\* scenes are kept (one stand-in scene when none is and one is asked for);
\* if not scenes: raise
GenerateScenes ==
  /\ pc = "scenes"
  /\ \E ok \in BOOLEAN, parsed \in 0..args.num_panels :
       LET n == IF parsed = 0 THEN Min(args.num_panels, 1) ELSE parsed
       IN /\ ~ok => parsed = 0
          /\ value' = [value EXCEPT !.scenes = IF ok THEN [k \in 1..n |-> k] ELSE <<>>,
                                    !.calls = Called("generate_scenes", 0, ok)]
          /\ pc' = IF ok /\ n > 0 THEN "image" ELSE "error"
  /\ UNCHANGED <<paragraph, quote_info, qi, bubbles, processed_ranges, non_quote_text,
                 si, returned, engine, ner, parked, args>>

\* img_data = await generate_image(...); with no bubble asked for the panel
\* gets its summary from generate_dialogue(scene, 0), which asks no service,
\* and is appended
GenerateImage ==
  /\ pc = "image"
  /\ \E ok \in BOOLEAN :
       IF ~ok
       THEN /\ value' = [value EXCEPT !.calls = Called("generate_image", value.i, FALSE)]
            /\ pc' = "error"
       ELSE IF args.num_bubbles > 0
       THEN /\ value' = [value EXCEPT !.calls = Called("generate_image", value.i, TRUE)]
            /\ pc' = "positions"
       ELSE /\ value' = Appended(value, image_filename(value.i), 0,
                                 Called("generate_image", value.i, TRUE))
            /\ pc' = AfterPanel(value)
  /\ UNCHANGED <<paragraph, quote_info, qi, bubbles, processed_ranges, non_quote_text,
                 si, returned, engine, ner, parked, args>>

\* positions = await detect_bubble_positions(...): [] when the service fails
DetectBubblePositions ==
  /\ pc = "positions"
  /\ \E ok \in BOOLEAN, found \in 0..args.num_bubbles :
       /\ ~ok => found = 0
       /\ value' = [value EXCEPT !.positions = found,
                                 !.calls = Called("detect_bubble_positions", value.i, ok)]
  /\ pc' = "dialogue"
  /\ UNCHANGED <<paragraph, quote_info, qi, bubbles, processed_ranges, non_quote_text,
                 si, returned, engine, ner, parked, args>>

\* dialogue_data = await generate_dialogue(...): no dialogue when the
\* service fails; then  if positions and dialogues  the two are merged
\* (which raises on dialogues that are no objects) for step 5, else the
\* panel is appended as it is
GenerateDialogue ==
  /\ pc = "dialogue"
  /\ \E ok \in BOOLEAN, made \in 0..args.num_bubbles, raises \in BOOLEAN :
       /\ ~ok => made = 0
       /\ raises => made > 0 /\ value.positions > 0
       /\ IF value.positions > 0 /\ made > 0 /\ ~raises
          THEN /\ value' = [value EXCEPT !.bubbles = Min(made, value.positions),
                                         !.calls = Called("generate_dialogue", value.i, ok)]
               /\ pc' = "render"
          ELSE /\ value' = Appended(value, image_filename(value.i), 0,
                                    Called("generate_dialogue", value.i, ok))
               /\ pc' = AfterPanel(value)
  /\ UNCHANGED <<paragraph, quote_info, qi, bubbles, processed_ranges, non_quote_text,
                 si, returned, engine, ner, parked, args>>

\* final_path = await add_bubbles_to_image(...);
\* panel_data.image_path = final_path; panels.append(panel_data)
AddBubblesToImage ==
  /\ pc = "render"
  /\ \E ok \in BOOLEAN :
       value' = Appended(value,
                         add_bubbles_to_image(image_filename(value.i), value.bubbles,
                                              final_image(value.i), ok),
                         value.bubbles,
                         Called("add_bubbles_to_image", value.i, ok))
  /\ pc' = AfterPanel(value)
  /\ UNCHANGED <<paragraph, quote_info, qi, bubbles, processed_ranges, non_quote_text,
                 si, returned, engine, ner, parked, args>>

\* pdf_path = create_comic_book_pdf(panels, pdf_filename); return {...}
CreateComicBookPdf ==
  /\ pc = "pdf"
  /\ \E ok \in BOOLEAN :
       /\ value' = [value EXCEPT !.calls = Called("create_comic_book_pdf", value.i, ok)]
       /\ pc' = IF ok THEN "success" ELSE "error"
  /\ UNCHANGED <<paragraph, quote_info, qi, bubbles, processed_ranges, non_quote_text,
                 si, returned, engine, ner, parked, args>>

NextComic ==
  \/ GenerateScenes
  \/ GenerateImage
  \/ DetectBubblePositions
  \/ GenerateDialogue
  \/ AddBubblesToImage
  \/ CreateComicBookPdf

SpecComic == InitComic /\ [][NextComic]_vars

\* the steps of the pipeline, by the function that carries them out
Step(fn) ==
  CASE fn = "generate_scenes" -> 1
    [] fn = "generate_image" -> 2
    [] fn = "detect_bubble_positions" -> 3
    [] fn = "generate_dialogue" -> 4
    [] fn = "add_bubbles_to_image" -> 5
    [] fn = "create_comic_book_pdf" -> 6

PanelSteps == {"generate_image", "detect_bubble_positions", "generate_dialogue",
               "add_bubbles_to_image"}

\* C27: the pipeline order of generate_comic_book.  Scenes are generated
\* first; the panels are processed one at a time in scene order, and for
\* each panel image generation completes before bubble-position detection,
\* which completes before dialogue generation, which completes before
\* bubble rendering; the PDF is assembled only after every panel has been
\* processed, and exactly once in a successful request.
C27_PipelineOrder ==
  LET calls == value.calls
      n == Len(calls)
  IN /\ \A a \in 1..n : calls[a].fn = "generate_scenes" <=> a = 1
     /\ \A a, b \in 1..n :
          (a < b /\ calls[a].fn \in PanelSteps /\ calls[b].fn \in PanelSteps) =>
            \/ calls[a].panel < calls[b].panel
            \/ calls[a].panel = calls[b].panel /\ Step(calls[a].fn) < Step(calls[b].fn)
     /\ \A b \in 1..n :
          (calls[b].fn \in PanelSteps \ {"generate_image"}) =>
            \E a \in 1..(b - 1) :
              /\ calls[a] = [fn |-> "generate_image", panel |-> calls[b].panel, ok |-> TRUE]
     /\ \A a \in 1..n :
          calls[a].fn = "create_comic_book_pdf" =>
            /\ a = n
            /\ Len(value.panels) = Len(value.scenes)
            /\ \A k \in 1..Len(value.scenes) : value.panels[k].scene = value.scenes[k]
     /\ pc = "success" => n > 0 /\ calls[n] = [fn |-> "create_comic_book_pdf",
                                               panel |-> Len(value.scenes), ok |-> TRUE]

\* C27 witness: a request of two panels has succeeded, and the first panel
\* went through all four of its steps.
C27_TwoPanelsThenPdf ==
  /\ pc = "success"
  /\ Len(value.panels) = 2
  /\ \E a \in 1..Len(value.calls) :
       value.calls[a] = [fn |-> "add_bubbles_to_image", panel |-> 0, ok |-> TRUE]

\* detection, dialogue generation or rendering has failed for panel k
BubbleStepFailed(k) ==
  \E a \in 1..Len(value.calls) :
    /\ value.calls[a].fn \in PanelSteps \ {"generate_image"}
    /\ value.calls[a].panel = k
    /\ ~value.calls[a].ok

\* C28: a failure of bubble-position detection, dialogue generation or
\* bubble rendering for a panel never aborts the request: the request fails
\* only on scene generation, image generation or the PDF; the panel is
\* appended with its originally generated image path, and the handler goes
\* on to the later panels and the PDF.  Rendering is attempted only when
\* both the positions and the dialogues are non-empty.
C28_BubbleFailuresTolerated ==
  LET calls == value.calls
      n == Len(calls)
  IN /\ pc = "error" =>
          /\ n > 0
          /\ calls[n].fn \in {"generate_scenes", "generate_image", "create_comic_book_pdf"}
     /\ \A k \in 0..(Len(value.scenes) - 1) :
          BubbleStepFailed(k) =>
            \/ k = value.i /\ pc \in {"dialogue", "render"}
            \/ /\ k < Len(value.panels)
               /\ value.panels[k + 1].image_path = image_filename(k)
     /\ pc \notin {"success", "error"} => ENABLED NextComic
     /\ pc = "success" => Len(value.panels) = Len(value.scenes)
     /\ pc = "render" => value.positions > 0 /\ value.bubbles > 0
     /\ \A b \in 1..n :
          calls[b].fn = "add_bubbles_to_image" =>
            \A fn \in {"detect_bubble_positions", "generate_dialogue"} :
              \E a \in 1..(b - 1) :
                calls[a] = [fn |-> fn, panel |-> calls[b].panel, ok |-> TRUE]

\* C28 witness: rendering failed for the first panel, which kept its
\* original image; the second panel was rendered and the request succeeded.
C28_RenderFailedThenSuccess ==
  /\ pc = "success"
  /\ Len(value.panels) = 2
  /\ \E a \in 1..Len(value.calls) :
       value.calls[a] = [fn |-> "add_bubbles_to_image", panel |-> 0, ok |-> FALSE]
  /\ value.panels[1].image_path = image_filename(0)
  /\ value.panels[2].image_path = final_image(1)

(***************************************************************************)
(* parse_scenes_from_text of comic_generator/orchestrator.py, called on    *)
(* its own on texts of a few lines.                                        *)
(***************************************************************************)
Digits == {"0", "1", "2", "3", "4", "5", "6", "7", "8", "9"}

RECURSIVE Split(_, _)
\* s.split(sep), sep a single character: the pieces between the separators
Split(s, sep) ==
  LET at == Find(s, sep)
  IN IF at = -1 THEN <<s>>
     ELSE <<Slice(s, 0, at)>> \o Split(Slice(s, at + 1, Len(s)), sep)

\* the three re.sub calls, one after the other, each anchored at the start:
\* r'^\d+[\.\)]\s*', r'^\d+\s*[-:]\s*' and r'^[-*]\s*'
RemoveNumbering(scene) ==
  LET DigitRun(s) ==
        LET stops == {k \in 0..Len(s) : k = Len(s) \/ At(s, k) \notin Digits}
        IN CHOOSE k \in stops : \A j \in stops : k <= j
      Rest(s, k) == LET r == Slice(s, k, Len(s)) IN Slice(r, LeadingSpace(r), Len(r))
      NumberDot(s) ==
        LET d == DigitRun(s)
        IN IF d > 0 /\ d < Len(s) /\ At(s, d) \in {".", ")"} THEN Rest(s, d + 1) ELSE s
      NumberDash(s) ==
        LET d == DigitRun(s)
            t == Slice(s, d, Len(s))
            w == LeadingSpace(t)
        IN IF d > 0 /\ w < Len(t) /\ At(t, w) \in {"-", ":"} THEN Rest(t, w + 1) ELSE s
      Bullet(s) ==
        IF s # "" /\ At(s, 0) \in {"-", "*"} THEN Rest(s, 1) ELSE s
  IN Bullet(NumberDash(NumberDot(scene)))

parse_scenes_from_text(scenes_text, num_panels) ==
  LET lines == Split(Strip(scenes_text), "\n")
      Numbered(line) == line # "" /\ (At(line, 0) \in Digits \cup {"-", "*"})
      cleaned == [k \in 1..Len(lines) |->
                    IF Numbered(Strip(lines[k]))
                    THEN Strip(RemoveNumbering(Strip(lines[k])))
                    ELSE ""]
      Meaningful(scene) == Len(scene) > 10
      numbered == SelectSeq(cleaned, Meaningful)
      sentences == Split(scenes_text, ".")
      stripped == [k \in 1..Len(sentences) |-> Strip(sentences[k])]
      Long(sentence) == Len(sentence) > 20
      scenes == IF numbered # <<>> THEN numbered ELSE SelectSeq(stripped, Long)
  IN SubSeq(scenes, 1, Min(num_panels, Len(scenes)))

MaxLines == 2

\* lines of a scene generator's answer: numbered in the three ways, too
\* short to be kept, not numbered at all, blank
SceneLines ==
  {"1. A knight rides out", "2) dawn", "- The dragon wakes up",
   "3 - 4. The duel at noon", "The end came. Nobody saw the knight again", " "}

SceneTexts == TextsOf({l \o "\n" : l \in SceneLines}, MaxLines)

InitParse ==
  /\ Idle
  /\ Constructed
  /\ pc = "parse"
  /\ args \in [scenes_text : SceneTexts, num_panels : 1..MaxPanels]
  /\ value = <<>>

\* scenes = parse_scenes_from_text(scenes_text, num_panels)
Parse ==
  /\ pc = "parse"
  /\ value' = parse_scenes_from_text(args.scenes_text, args.num_panels)
  /\ pc' = "parsed"
  /\ UNCHANGED <<paragraph, quote_info, qi, bubbles, processed_ranges, non_quote_text,
                 si, returned, engine, ner, parked, args>>

NextParse == Parse

SpecParse == InitParse /\ [][NextParse]_vars

\* C29: parse_scenes_from_text returns exactly num_panels scenes, for every
\* scenes_text and every num_panels >= 1.
C29_ExactlyNumPanels ==
  pc = "parsed" => Len(value) = args.num_panels

(***************************************************************************)
(* The endpoint /generate_dialogue/ of comic_generator/dialogue_generator  *)
(* called on its own: it runs the module's extractor on the scene          *)
(* description (the paragraph above; the inputs have no curly quotation    *)
(* mark, on which alone the module's Quote Locator differs) and builds its *)
(* response from the bubbles.  args is the request, bubble_positions by    *)
(* its length; value is the response.                                      *)
(***************************************************************************)
MaxDialogues == 2

MaxPositions == 2

DialogueRequest == [num_dialogues : -1..MaxDialogues, bubble_positions : 0..MaxPositions]

\* the body of the try statement, from the bubbles on
generate_dialogue(extracted, num_dialogues, bubble_positions) ==
  LET NotScene(b) == b.bubble_type # "scene"
      non_scene == SelectSeq(extracted, NotScene)
      dialogue_bubbles == IF Len(non_scene) < num_dialogues THEN extracted ELSE non_scene
      upto == IF num_dialogues >= 0 THEN Min(num_dialogues, Len(dialogue_bubbles))
              ELSE Max(0, Len(dialogue_bubbles) + num_dialogues)
      limited == SubSeq(dialogue_bubbles, 1, upto)
      tail_direction(bubble_type, index) ==
        IF bubble_type = "thought" THEN "top"
        ELSE IF bubble_type = "shout"
             THEN (IF index % 2 = 0 THEN "bottom" ELSE "bottom-right")
        ELSE <<"bottom", "bottom-left", "bottom-right", "top">>[(index % 4) + 1]
      font_size(bubble_type, text_length) ==
        IF bubble_type = "shout" THEN 24
        ELSE IF text_length < 20 THEN 22
        ELSE IF text_length < 50 THEN 20
        ELSE 18
      result == [k \in 1..Min(Len(limited), bubble_positions) |->
                   [text |-> limited[k].text,
                    pos |-> k - 1,
                    bubble_type |-> limited[k].bubble_type,
                    tail_direction |-> tail_direction(limited[k].bubble_type, k - 1),
                    font_size |-> font_size(limited[k].bubble_type, Len(limited[k].text)),
                    character |-> limited[k].character]]
  IN [status |-> "success", dialogues |-> result, count |-> Len(result)]

InitEndpoint ==
  /\ Start(ThreadParagraphs)
  /\ Constructed
  /\ parked = NoFrame
  /\ args \in DialogueRequest
  /\ value = <<>>

\* bubbles = extractor.process_paragraph(...) has returned: return {...}
Respond ==
  /\ pc = "done"
  /\ value' = generate_dialogue(returned, args.num_dialogues, args.bubble_positions)
  /\ pc' = "responded"
  /\ UNCHANGED <<paragraph, quote_info, qi, bubbles, processed_ranges, non_quote_text,
                 si, returned, engine, ner, parked, args>>

\* except Exception as e: return {"status": "error", ...}
RespondError ==
  /\ pc = "raised"
  /\ value' = [status |-> "error", dialogues |-> <<>>, count |-> 0]
  /\ pc' = "failed"
  /\ UNCHANGED <<paragraph, quote_info, qi, bubbles, processed_ranges, non_quote_text,
                 si, returned, engine, ner, parked, args>>

NextEndpoint == Next \/ EngineFails \/ Respond \/ RespondError

SpecEndpoint == InitEndpoint /\ [][NextEndpoint]_vars

\* the handler has returned from the try block; from the except clause
Responded == pc = "responded"

Failed == pc = "failed"

\* the bubbles of ds are bubbles of bs, in the order they have in bs
InOrderOf(ds, bs) ==
  \E f \in [1..Len(ds) -> 1..Len(bs)] :
    /\ \A j, k \in 1..Len(ds) : j < k => f[j] < f[k]
    /\ \A k \in 1..Len(ds) :
         /\ ds[k].text = bs[f[k]].text
         /\ ds[k].bubble_type = bs[f[k]].bubble_type
         /\ ds[k].character = bs[f[k]].character

\* C30: the response of /generate_dialogue/.  The dialogues are in
\* extractor order; their number is the reported count and is at most
\* min(num_dialogues, number of bubble_positions, number of extracted
\* bubbles), none when that is not positive; a scene bubble is in the
\* response only when the extractor produced fewer than num_dialogues
\* non-scene bubbles.  When an exception occurs the status is "error",
\* dialogues is empty and count is 0.
C30_ResponseOfGenerateDialogue ==
  /\ Failed => value = [status |-> "error", dialogues |-> <<>>, count |-> 0]
  /\ Responded =>
       /\ value.status = "success"
       /\ InOrderOf(value.dialogues, returned)
       /\ value.count = Len(value.dialogues)
       /\ value.count <=
            Max(0, Min(args.num_dialogues, Min(args.bubble_positions, Len(returned))))
       /\ (\E k \in 1..Len(value.dialogues) : value.dialogues[k].bubble_type = "scene") =>
            Cardinality({i \in 1..Len(returned) : returned[i].bubble_type # "scene"})
              < args.num_dialogues

====
